---------------------------- MODULE Spec2Model ----------------------------
(***************************************************************************)
(* Mode eigenvalue solvers of ofiber (cylinder_step.py, planar_step.py).   *)
(*                                                                         *)
(* Real numbers are fixed-point integers with One = 10^6 units, so that    *)
(* the guard abit = 1e-5 of the source is 10 units.  Every intermediate    *)
(* product is split so that it stays inside 32-bit integers; magnitudes    *)
(* saturate at Big (the model's stand-in for a huge double).               *)
(*                                                                         *)
(* A Python value is a record [kind, v]:                                   *)
(*   kind = "float"  a finite number, v its fixed-point value              *)
(*   kind = "None"   the None object                                       *)
(*   kind = "nan"    a float not-a-number                                  *)
(*   kind = "int"    the integer v                                         *)
(*   kind = "array"  a numpy array, its entries held beside the value      *)
(*   kind = "raise"  the call ended by raising; v is unused                *)
(***************************************************************************)
EXTENDS Integers, Sequences, FiniteSets

(***************************************************************************)
(* The caller: one library call at a time.  op is the function called      *)
(* ("idle" between calls), args its arguments, ret the value returned      *)
(* (kind "array": the array is arr), calls the record of the               *)
(* scalar-solver calls the function made, in order.  earlier is one call   *)
(* made before and what it returned, with the number of different calls    *)
(* made since: the caller's notebook, which no library function reads.     *)
(* _GLASS and ALL_GLASS_NAMES are the module-level tables of refraction.py. *)
(***************************************************************************)
VARIABLES op, args, ret, arr, calls, earlier, _GLASS, ALL_GLASS_NAMES

vars == << op, args, ret, arr, calls, earlier, _GLASS, ALL_GLASS_NAMES >>

One == 10^6
Kilo == 10^3
Big == 1000 * One

Abs(a) == IF a < 0 THEN -a ELSE a
Sgn(a) == IF a > 0 THEN 1 ELSE IF a < 0 THEN -1 ELSE 0
Sat(a) == IF a > Big THEN Big ELSE IF a < -Big THEN -Big ELSE a
Max(a, b) == IF a >= b THEN a ELSE b
Min(a, b) == IF a <= b THEN a ELSE b

\* a*b/One for 0 <= a, b <= Big, saturating at Big
MulU(a, b) ==
  IF a = 0 \/ b = 0 THEN 0
  ELSE LET ai == a \div One  af == a % One
           bi == b \div One  bf == b % One
           ah == af \div Kilo  al == af % Kilo
           bh == bf \div Kilo  bl == bf % Kilo
           fr == ah * bh + (ah * bl + al * bh) \div Kilo + (al * bl) \div One
           s1 == ai * bi * One + ai * bf
           s2 == s1 + af * bi
       IN IF ai * bi >= 1000 \/ s1 >= Big \/ s2 >= Big THEN Big
          ELSE Sat(s2 + fr)

Mul(a, b) ==
  IF a = 0 \/ b = 0 THEN 0
  ELSE IF (a < 0) = (b < 0) THEN MulU(Abs(a), Abs(b))
  ELSE -MulU(Abs(a), Abs(b))

\* the first k decimal digits of r/b, 0 <= r < b, as an integer
RECURSIVE DivStep(_, _, _)
DivStep(r, b, k) ==
  IF k = 0 \/ r = 0 THEN 0
  ELSE ((r * 10) \div b) * 10^(k - 1) + DivStep((r * 10) % b, b, k - 1)

\* a*One/b for a >= 0, b >= 0, saturating at Big (also for b = 0)
RECURSIVE DivU(_, _)
DivU(a, b) ==
  IF b = 0 THEN Big
  ELSE IF b > 2 * 10^8 THEN DivU(a \div 10, b \div 10)
  ELSE IF a \div b >= 1000 THEN Big
  ELSE Sat((a \div b) * One + DivStep(a % b, b, 6))

Div(a, b) ==
  IF b = 0 THEN Sgn(a) * Big
  ELSE IF (a < 0) = (b < 0) THEN DivU(Abs(a), Abs(b))
  ELSE -DivU(Abs(a), Abs(b))

\* Newton's iteration from r, n being the iterate after r
RECURSIVE SqrtIter(_, _, _)
SqrtIter(x, r, n) ==
  IF n >= r THEN r ELSE SqrtIter(x, n, (n + DivU(x, n)) \div 2)

SqrtStart(x) ==
  IF x < 10^2 THEN 10^4
  ELSE IF x < 10^4 THEN 10^5
  ELSE IF x < 10^6 THEN 10^6
  ELSE IF x < 10^8 THEN 10^7
  ELSE 10^8

\* np.sqrt for x >= 0
Sqrt(x) ==
  IF x <= 0 THEN 0
  ELSE SqrtIter(x, SqrtStart(x), (SqrtStart(x) + DivU(x, SqrtStart(x))) \div 2)

RECURSIVE Pow(_, _)
Pow(h, n) == IF n = 0 THEN One ELSE Mul(h, Pow(h, n - 1))

RECURSIVE Fact(_)
Fact(n) == IF n = 0 THEN 1 ELSE n * Fact(n - 1)

(***************************************************************************)
(* Special functions (scipy.special), as far as the solvers use them.      *)
(* Doubles keep the relative accuracy of J_n(x) ~ (x/2)^n/n! and of        *)
(* K_n(x) ~ exp(-x) over their whole range; fixed point does not.  The     *)
(* model therefore evaluates the quotients the source forms,               *)
(* U*jv(ell-1,U)/jv(ell,U) and W*kn(ell-1,W)/kn(ell,W), through the        *)
(* normalised series Lam_n(x) = J_n(x) n!/(x/2)^n and through              *)
(* Rho_n(x) = K_n(x)/K_{n+1}(x).                                           *)
(***************************************************************************)

\* np.pi
Pi == 3141593

TrigTerms == 16

\* the term after term t of the sine or cosine series, t being the term in
\* r^k and q = r^2
TrigNext(q, k, t) == -Sgn(t) * (MulU(Abs(t), q) \div ((k + 1) * (k + 2)))

\* acc plus the terms of the series from t, the term in r^k, on
RECURSIVE TrigSum(_, _, _, _)
TrigSum(q, k, t, acc) ==
  IF t = 0 \/ k > TrigTerms \/ Abs(acc) >= Big THEN acc
  ELSE TrigSum(q, k + 2, TrigNext(q, k, t), acc + t)

Sin(r) == TrigSum(Mul(r, r), 1, r, 0)
Cos(r) == TrigSum(Mul(r, r), 0, One, 0)

\* x less the multiple of pi nearest to it
TanReduce(x) == x - ((2 * x + Pi) \div (2 * Pi)) * Pi

TanOf(r) == Div(Sin(r), Cos(r))

\* np.tan
Tan(x) == TanOf(TanReduce(x))

\* scipy.special.jn_zeros: the first positive zeros of J_0 .. J_3
JZeroTable ==
  << << 2404826, 5520078, 8653728, 11791534, 14930918,
        18071064, 21211637, 24352472, 27493481, 30634570 >>,
     << 3831706, 7015587, 10173468, 13323692, 16470630,
        19615859, 22760084, 25903672, 29046828, 32189694 >>,
     << 5135622, 8417244, 11619841, 14795952, 17959819,
        21116997, 24270112, 27420577, 30569220, 33717022 >>,
     << 6380162, 9761023, 13015201, 16223466, 19409415,
        22582730, 25748166, 28908364, 32065396, 35221231 >> >>

\* jn_zeros(n, nt): the first nt zeros of J_n (scipy uses abs(n))
jn_zeros(n, nt) == SubSeq(JZeroTable[Abs(n) + 1], 1, nt)

JTerms == 24

\* term k + 1 of Lam_n from term k, q = x^2/4
JNext(q, n, k, t) ==
  -Sgn(t) * (MulU(Abs(t) \div (k + 1), q) \div (k + 1 + n))

\* acc plus the terms of Lam_n from term k on, t being term k; two terms
\* at a time
RECURSIVE JSum(_, _, _, _, _)
JSum(q, n, k, t, acc) ==
  IF t = 0 \/ k > JTerms \/ Abs(acc) >= Big THEN acc
  ELSE JSum(q, n, k + 2, JNext(q, n, k + 1, JNext(q, n, k, t)),
            acc + t + JNext(q, n, k, t))

LamSeries(n, x) == JSum(MulU(x \div 2, x \div 2), n, 0, One, 0)

\* (x/2)^n / n!
Pref(n, x) == Pow(x \div 2, n) \div Fact(n)

\* J_n(x), n >= 0, away from the zeros of J_n
JPlain(n, x) == Mul(Pref(n, x), LamSeries(n, x))

\* J_n'(z) at a zero z of J_n
DJ(n, z) ==
  (IF n >= 1 THEN 1 ELSE -1) * JPlain(IF n >= 1 THEN n - 1 ELSE 1, z)

JNear == One \div 50

\* the tabulated zero of J_n within JNear of x, or 0
NearZero(n, x) ==
  LET near == { i \in 1..Len(JZeroTable[n + 1]) :
                  Abs(x - JZeroTable[n + 1][i]) <= JNear }
  IN IF near = {} THEN 0 ELSE JZeroTable[n + 1][CHOOSE i \in near : TRUE]

\* numpy's float division: x/0 is +-inf (Big here), 0/0 is nan
FDiv(a, b) ==
  IF b = 0 THEN (IF a = 0 THEN [kind |-> "nan", v |-> 0]
                 ELSE [kind |-> "float", v |-> Sgn(a) * Big])
  ELSE [kind |-> "float", v |-> Div(a, b)]

\* J_n(x), n >= 0, within JNear of the zero z of J_n
JTaylor(n, x, z) == Mul(DJ(n, z), (x - z) - Div(Mul(x - z, x - z), 2 * z))

\* U*jv(ell-1,U)/jv(ell,U); jv(-n,x) = (-1)^n jv(n,x)
\* the order next to ell that the quotient uses, as a non-negative order
AdjOrder(ell) == IF ell >= 1 THEN ell - 1 ELSE Abs(ell) + 1

\* U*jv(ell-1,U)/jv(ell,U) with z = NearZero(|ell|, U)
UJRatioAt(ell, U, z) ==
  IF z # 0
  THEN FDiv(Mul(U, (IF ell >= 1 THEN 1 ELSE -1) * JPlain(AdjOrder(ell), U)),
            JTaylor(Abs(ell), U, z))
  ELSE FDiv(Mul(IF ell >= 1 THEN 2 * ell * One
                ELSE -(Mul(U, U) \div (2 * (Abs(ell) + 1))),
                LamSeries(AdjOrder(ell), U)),
            LamSeries(Abs(ell), U))

\* Above JSwitch the quotient is taken from Hankel's expansion
\*   J_n(x) = sqrt(2/(pi x)) (P_n cos chi - Q_n sin chi),
\*   chi = x - (2n + 1) pi/4.
JSwitch == 8 * One

HankelTerms == 8

\* term k of the expansion from term k - 1, a
HankelNext(n, x, k, a) ==
  Div(Sgn(a * (4 * n * n - (2 * k - 1) * (2 * k - 1)))
        * (Abs(a * (4 * n * n - (2 * k - 1) * (2 * k - 1))) \div (8 * k)),
      x)

\* << P_n, Q_n >> from term k, a, on; pq holds the terms before
RECURSIVE HankelSum(_, _, _, _, _)
HankelSum(n, x, k, a, pq) ==
  IF a = 0 \/ k > HankelTerms \/ Abs(pq[1]) + Abs(pq[2]) >= Big THEN pq
  ELSE HankelSum(n, x, k + 1, HankelNext(n, x, k + 1, a),
                 CASE k % 4 = 0 -> << pq[1] + a, pq[2] >>
                   [] k % 4 = 1 -> << pq[1], pq[2] + a >>
                   [] k % 4 = 2 -> << pq[1] - a, pq[2] >>
                   [] k % 4 = 3 -> << pq[1], pq[2] - a >>)

HankelPQ(n, x) == HankelSum(n, x, 0, One, << 0, 0 >>)

\* chi of order n, less the multiple of pi nearest to it
Chi(n, x) == TanReduce(x - ((2 * n + 1) * Pi) \div 4)

\* U*jv(ell-1,U)/jv(ell,U) from pqm = HankelPQ of the order next to ell,
\* pqn = HankelPQ(|ell|), and s, c the sine and cosine of Chi(|ell|, U)
UJHankelFrom(U, pqm, pqn, s, c) ==
  FDiv(Mul(U, -(Mul(pqm[1], s) + Mul(pqm[2], c))),
       Mul(pqn[1], c) - Mul(pqn[2], s))

UJHankel(ell, U) ==
  UJHankelFrom(U, HankelPQ(AdjOrder(ell), U), HankelPQ(Abs(ell), U),
               Sin(Chi(Abs(ell), U)), Cos(Chi(Abs(ell), U)))

UJRatio(ell, U) ==
  IF U > JSwitch THEN UJHankel(ell, U)
  ELSE UJRatioAt(ell, U, NearZero(Abs(ell), U))

Ln2 == 693147
EulerGamma == 577216
LnTerms == 12

\* acc plus the sum over j >= k of t^(2j+1)/(2j+1), p = t^(2k+1), t2 = t^2
RECURSIVE LnSeries(_, _, _, _)
LnSeries(t2, k, p, acc) ==
  IF p = 0 \/ k >= LnTerms \/ acc >= Big THEN acc
  ELSE LnSeries(t2, k + 1, MulU(p, t2), acc + p \div (2 * k + 1))

\* 2 artanh(t)
LnOdd(t) == 2 * LnSeries(MulU(t, t), 0, t, 0)

\* ln(m) for 1 <= m < 2
LnNorm(m) == LnOdd(DivU(m - One, m + One))

\* ln(y) for y > 0, k counting the doublings done so far
RECURSIVE LnRed(_, _)
LnRed(y, k) ==
  CASE y < One \div 16 -> LnRed(16 * y, k + 4)
    [] y >= One \div 16 /\ y < One -> LnRed(2 * y, k + 1)
    [] y >= 2 * One -> LnRed(y \div 2, k - 1)
    [] y >= One /\ y < 2 * One -> LnNorm(y) - k * Ln2

Ln(y) == LnRed(y, 0)

KTerms == 12

\* the four sums of the ascending series of K_0 and x*K_1, from term k on:
\* p0 = q^k/(k!)^2, p1 = q^k/(k!(k+1)!), h = H_k
RECURSIVE KSum(_, _, _, _, _, _)
KSum(q, k, p0, p1, h, acc) ==
  IF k >= KTerms \/ (p0 = 0 /\ p1 = 0) \/ acc[4] >= Big THEN acc
  ELSE LET h1 == h + One \div (k + 1)
       IN KSum(q, k + 1,
               MulU(p0, q) \div ((k + 1) * (k + 1)),
               MulU(p1, q) \div ((k + 1) * (k + 2)),
               h1,
               << acc[1] + p0, acc[2] + MulU(h, p0),
                  acc[3] + p1, acc[4] + MulU(h + h1, p1) >>)

\* K_0(x)/K_1(x) by the ascending series (small x)
\* x*K_0/(x*K_1) from q = x^2/4, L = ln(x/2) + gamma and the four sums s
KRatioFrom(x, q, L, s) ==
  DivU(MulU(x, s[2] - Mul(L, s[1])),
       One + 2 * Mul(Mul(q, L), s[3]) - MulU(q, s[4]))

KRatioSeries(x) ==
  KRatioFrom(x, MulU(x \div 2, x \div 2), Ln(x \div 2) + EulerGamma,
             KSum(MulU(x \div 2, x \div 2), 0, One, One, 0, << 0, 0, 0, 0 >>))

KLevels == 8

\* 2(x+n) - ((2n+1)/2)^2 / (2(x+n+1) - ...) from level n down to level 1,
\* tail being the value of level n + 1
RECURSIVE KFrac(_, _, _)
KFrac(x, n, tail) ==
  IF n = 0 \/ tail <= 0 THEN tail
  ELSE KFrac(x, n - 1,
             2 * (x + n * One)
             - DivU(((2 * n + 1) * (2 * n + 1) * One) \div 4, tail))

\* K_0(x)/K_1(x) by the continued fraction cut after level KLevels (larger x)
KRatioCF(x) ==
  DivU(x, x + One \div 2
          - DivU(One \div 4, KFrac(x, KLevels - 1, 2 * (x + KLevels * One))))

KSwitch == (8 * One) \div 10

\* Rho_n(x) from rho = Rho_k(x), by K_{k+2} = K_k + (2(k+1)/x) K_{k+1}
RECURSIVE RhoUp(_, _, _, _)
RhoUp(x, n, k, rho) ==
  IF k >= n \/ rho >= Big THEN rho
  ELSE RhoUp(x, n, k + 1, DivU(x, MulU(x, rho) + 2 * (k + 1) * One))

\* Rho_n(x) = K_n(x)/K_{n+1}(x), n >= 0, x > 0
Rho(n, x) ==
  RhoUp(x, n, 0, IF x <= KSwitch THEN KRatioSeries(x) ELSE KRatioCF(x))

\* the argument from which on scipy.special.kn returns 0.0 (underflow)
KUnderflow == 745 * One

\* W*kn(ell-1,W)/kn(ell,W); 0/0 once kn has underflowed
\* W*kn(ell-1,W)/kn(ell,W) from rho = Rho(|ell| - 1, W) (Rho(0, W) for ell = 0);
\* kn(-n,x) = kn(n,x)
WKFrom(ell, W, rho) ==
  IF ell = 0 THEN DivU(W, rho)
  ELSE MulU(W, rho) + (IF ell < 0 THEN -2 * ell * One ELSE 0)

\* variant: the division by kn = 0 raises
WKRatio_Raise(ell, W) ==
  IF W >= KUnderflow \/ W = 0 THEN [kind |-> "raise", v |-> 0]
  ELSE [kind |-> "float",
        v |-> WKFrom(ell, W, Rho(IF ell = 0 THEN 0 ELSE Abs(ell) - 1, W))]

WKRatio(ell, W) ==
  IF W >= KUnderflow \/ W = 0 THEN [kind |-> "nan", v |-> 0]
  ELSE [kind |-> "float",
        v |-> WKFrom(ell, W, Rho(IF ell = 0 THEN 0 ELSE Abs(ell) - 1, W))]

(***************************************************************************)
(* Python values.                                                          *)
(***************************************************************************)
PyFloat(x) == [kind |-> "float", v |-> x]
PyNone == [kind |-> "None", v |-> 0]
PyNaN == [kind |-> "nan", v |-> 0]
PyRaise == [kind |-> "raise", v |-> 0]
PyArray == [kind |-> "array", v |-> 0]

Square(x) == Mul(x, x)

\* a - b on floats; an exception raised in an operand goes through
FSub(a, b) ==
  IF a.kind = "raise" \/ b.kind = "raise" THEN PyRaise
  ELSE IF a.kind = "nan" \/ b.kind = "nan" THEN PyNaN
  ELSE PyFloat(Sat(a.v - b.v))

\* -a on floats
FNeg(a) == IF a.kind = "float" THEN PyFloat(-a.v) ELSE a

\* the sign of a float; 2 for nan, 3 for an exception
FSign(a) ==
  IF a.kind = "raise" THEN 3 ELSE IF a.kind = "nan" THEN 2 ELSE Sgn(a.v)

(***************************************************************************)
(* cylinder_step.py                                                        *)
(***************************************************************************)
\* np.sqrt of a negative number is nan
_LHS_eqn_8_40(b, V, ell) ==
  IF One - b < 0 THEN PyNaN
  ELSE UJRatio(ell, Mul(V, Sqrt(One - b)))

_RHS_eqn_8_40(b, V, ell) ==
  IF b < 0 THEN PyNaN
  ELSE FNeg(WKRatio(ell, Mul(V, Sqrt(b))))

_cyl_mode_eqn(b, V, ell) ==
  FSub(_LHS_eqn_8_40(b, V, ell), _RHS_eqn_8_40(b, V, ell))

(***************************************************************************)
(* planar_step.py: the eigenvalue equations                                *)
(***************************************************************************)
\* V**2 / 4 - xi * xi
Radicand(xi, V) == Mul(V, V) \div 4 - Mul(xi, xi)

_TE_mode(xi, V, mode) ==
  IF Radicand(xi, V) < 0 THEN PyNaN
  ELSE IF mode % 2 = 0
  THEN PyFloat(Sat(Mul(xi, Tan(xi)) - Sqrt(Radicand(xi, V))))
  ELSE PyFloat(Sat(Div(xi, Tan(xi)) + Sqrt(Radicand(xi, V))))

\* n1 / n2 of Python numbers raises ZeroDivisionError for n2 = 0
_TM_mode(xi, V, n1, n2, mode) ==
  IF n2 = 0 THEN PyRaise
  ELSE IF Radicand(xi, V) < 0 THEN PyNaN
  ELSE IF mode % 2 = 0
  THEN PyFloat(Sat(Mul(xi, Tan(xi))
                   - Mul(Square(Div(n1, n2)), Sqrt(Radicand(xi, V)))))
  ELSE PyFloat(Sat(Div(xi, Tan(xi))
                   + Mul(Square(Div(n1, n2)), Sqrt(Radicand(xi, V)))))

\* variant: every mode is treated as an even one
_parabolic_mode_Even(xi, V, mode) ==
  IF Radicand(xi, V) < 0 THEN PyNaN
  ELSE PyFloat(Sat(Mul(xi, Tan(xi)) - Sqrt(Radicand(xi, V))))

\* planar_parabolic.py, lines 127-132
_parabolic_mode(xi, V, mode) ==
  IF Radicand(xi, V) < 0 THEN PyNaN
  ELSE IF mode % 2 = 0
  THEN PyFloat(Sat(Mul(xi, Tan(xi)) - Sqrt(Radicand(xi, V))))
  ELSE PyFloat(Sat(Div(xi, Tan(xi)) + Sqrt(Radicand(xi, V))))

(***************************************************************************)
(* scipy.optimize.brentq                                                   *)
(***************************************************************************)
\* the function given to brentq with its args
Fn(name, a) == [f |-> name, a |-> a]

\* fn(x, *args)
Apply(fn, x) ==
  CASE fn.f = "_cyl_mode_eqn" -> _cyl_mode_eqn(x, fn.a[1], fn.a[2])
    [] fn.f = "_TE_mode" -> _TE_mode(x, fn.a[1], fn.a[2])
    [] fn.f = "_TM_mode" -> _TM_mode(x, fn.a[1], fn.a[2], fn.a[3], fn.a[4])
    [] fn.f = "_parabolic_mode" -> _parabolic_mode(x, fn.a[1], fn.a[2])

\* The search of scipy.optimize.brentq once the bracket is known to hold a
\* sign change.  A search b is [lo, hi, slo, kind, v]: slo is the sign of f
\* at lo; kind is "open" while the search runs and else how it ended, at v.
OpenSearch(lo, hi, slo) ==
  [lo |-> lo, hi |-> hi, slo |-> slo, kind |-> "open", v |-> 0]

Mid(b) == (b.lo + b.hi) \div 2

\* one step of b, sm being the sign of f at Mid(b): the search ends on a
\* zero of f, on a bracket one unit wide, on nan or on an exception
Narrow(b, sm) ==
  CASE b.kind # "open" -> b
    [] b.kind = "open" /\ b.hi - b.lo <= 1 ->
         [b EXCEPT !.kind = "root", !.v = b.lo]
    [] b.kind = "open" /\ b.hi - b.lo > 1 /\ sm = 3 ->
         [b EXCEPT !.kind = "raise", !.v = Mid(b)]
    [] b.kind = "open" /\ b.hi - b.lo > 1 /\ sm = 2 ->
         [b EXCEPT !.kind = "nan", !.v = Mid(b)]
    [] b.kind = "open" /\ b.hi - b.lo > 1 /\ sm = 0 ->
         [b EXCEPT !.kind = "root", !.v = Mid(b)]
    [] b.kind = "open" /\ b.hi - b.lo > 1 /\ sm \in {-1, 1} /\ sm = b.slo ->
         [b EXCEPT !.lo = Mid(b)]
    [] b.kind = "open" /\ b.hi - b.lo > 1 /\ sm \in {-1, 1} /\ sm # b.slo ->
         [b EXCEPT !.hi = Mid(b)]

BrentStep(fn, b) == Narrow(b, FSign(Apply(fn, Mid(b))))

\* four steps at a time
RECURSIVE Bisect(_, _)
Bisect(fn, b) ==
  IF b.kind # "open" THEN b
  ELSE Bisect(fn, BrentStep(fn, BrentStep(fn, BrentStep(fn, BrentStep(fn, b)))))

\* scipy.optimize.brentq(fn, lo, hi, args) ends in
\*   "root"     a root in [lo, hi]
\*   "signerr"  ValueError: f(lo) and f(hi) have the same sign
\*   "nan"      ValueError: a function value is nan
\*   "raise"    the exception that fn raised
\* slo, shi: the signs of f at lo and at hi
BrentEnds(fn, lo, hi, slo, shi) ==
  IF slo = 3 \/ shi = 3 THEN [kind |-> "raise", v |-> 0]
  ELSE IF slo = 2 THEN [kind |-> "nan", v |-> lo]
  ELSE IF shi = 2 THEN [kind |-> "nan", v |-> hi]
  ELSE IF slo = 0 THEN [kind |-> "root", v |-> lo]
  ELSE IF shi = 0 THEN [kind |-> "root", v |-> hi]
  ELSE IF slo = shi THEN [kind |-> "signerr", v |-> 0]
  ELSE Bisect(fn, OpenSearch(lo, hi, slo))

brentq(fn, lo, hi) ==
  BrentEnds(fn, lo, hi, FSign(Apply(fn, lo)), FSign(Apply(fn, hi)))

(***************************************************************************)
(* cylinder_step.py: the solver                                            *)
(***************************************************************************)

abit == One \div 100000

\* variant: a negative order is replaced by 0
AbsEll_Zero(ell) == IF ell < 0 THEN 0 ELSE ell

\* ell after lines 159-160
AbsEll(ell) == IF ell < 0 THEN ell * (-1) ELSE ell

\* variant: only a negative V is rejected
RejectV_Strict(V) == V < 0

\* the rejection of line 165
RejectV(V) == V <= 0

\* (z/V)**2
SqRatio(z, V) == Square(Div(z, V))

\* variant: the lower end lies below every upper end
CylLo_Below(V, ell, em) == -Big

\* lo of line 172
CylLo(V, ell, em) == Max(0, One - SqRatio(jn_zeros(ell, em)[em], V)) + abit

\* variant: the upper end for em = 1 is used for every em
CylHi_Top(V, ell, em) == One - abit

\* hi of lines 174-177
CylHi(V, ell, em) ==
  IF em = 1 THEN One - abit
  ELSE One - SqRatio(jn_zeros(ell, em)[em - 1], V) - abit

\* variant: 0.0 is returned where no mode exists
NoMode_Zero == PyFloat(0)

\* the value returned where no mode exists (lines 163, 166, 180)
NoMode == PyNone

\* variant: the ValueError of brentq is not caught
OnValueError_Raise == PyRaise

\* the except clause of lines 184-185: a ValueError of brentq is no mode
OnValueError == PyNone

\* What one call of _LP_mode_value did:
\*   ret    the value returned
\*   zeros  whether jn_zeros was called
\*   brent  "no" when brentq was not called, else how brentq ended
\*   lo, hi the bracket (0, 0 when none was computed)
Outcome(V, ell, em, r, z, br, l, h) ==
  [V |-> V, ell |-> ell, em |-> em,
   ret |-> r, zeros |-> z, brent |-> br, lo |-> l, hi |-> h]

\* lines 182-187: r is how brentq ended
LPSolved(V, ell0, em, lo, hi, r) ==
  Outcome(V, ell0, em,
          IF r.kind = "root" THEN PyFloat(r.v)
          ELSE IF r.kind = "raise" THEN PyRaise
          ELSE OnValueError,
          TRUE, r.kind, lo, hi)

\* variant: the bracket is never found empty
NoBracket_Never(lo, hi) == FALSE

\* the test of line 179
NoBracket(lo, hi) == hi < lo

\* lines 179-187: ell is the order after abs, lo and hi the bracket
LPBracket(V, ell0, ell, em, lo, hi) ==
  IF NoBracket(lo, hi) THEN Outcome(V, ell0, em, NoMode, TRUE, "no", lo, hi)
  ELSE LPSolved(V, ell0, em, lo, hi, brentq(Fn("_cyl_mode_eqn", << V, ell >>), lo, hi))

_LP_mode_value(V, ell0, em) ==
  IF em <= 0 THEN Outcome(V, ell0, em, NoMode, FALSE, "no", 0, 0)
  ELSE IF RejectV(V) THEN Outcome(V, ell0, em, NoMode, FALSE, "no", 0, 0)
  ELSE LPBracket(V, ell0, AbsEll(ell0), em,
                 CylLo(V, AbsEll(ell0), em), CylHi(V, AbsEll(ell0), em))

\* LP_mode_value with scalar V, ell and em: the value and the calls of
\* _LP_mode_value made
ScalarCall(o) == [ret |-> o.ret, calls |-> << o >>]

LP_mode_value(V, ell, em) ==
  IF em < 1 THEN [ret |-> PyRaise, calls |-> << >>]
  ELSE ScalarCall(_LP_mode_value(V, ell, em))

\* range(1, 10) of line 250 ends before LoopEnd
LoopEnd == 10

\* what LP_mode_value(V, ell, em) does for each em of the range of line 250
LoopCalls(V, ell) == { LP_mode_value(V, ell, em) : em \in 1..(LoopEnd - 1) }

\* the call for em among rs
CallFor(rs, em) == CHOOSE r \in rs : r.calls[1].em = em

\* variant: the loop never ends early
Stops_Never(rs) == { }

\* the values of em at which the loop ends early: None (line 252) or raised
Stops(rs) == { r.calls[1].em : r \in { q \in rs : q.ret.kind # "float" } }

\* the last em for which the loop body runs
LastEm(rs) ==
  IF Stops(rs) = {} THEN LoopEnd - 1
  ELSE CHOOSE em \in Stops(rs) : \A o \in Stops(rs) : em <= o

\* the loop of lines 250-254, rs being what the calls do: the calls
\* em = 1 .. LastEm are made, and each b before the first None is appended
LoopResult(rs) ==
  [ret |-> IF CallFor(rs, LastEm(rs)).ret.kind = "raise" THEN PyRaise
           ELSE PyNone,
   arr |-> IF CallFor(rs, LastEm(rs)).ret.kind = "raise" THEN << >>
           ELSE [em \in 1..(IF Stops(rs) = {} THEN LastEm(rs)
                            ELSE LastEm(rs) - 1) |-> CallFor(rs, em).ret.v],
   calls |-> [em \in 1..LastEm(rs) |-> CallFor(rs, em).calls[1]]]

\* LP_mode_values(V, ell): arr is the array returned
LP_mode_values(V, ell) == LoopResult(LoopCalls(V, ell))

(***************************************************************************)
(* cylinder_step.py: the functions that use LP_mode_value, called with a   *)
(* scalar V                                                                *)
(***************************************************************************)
ExpTerms == 16

\* acc plus the terms of the series of e^x from term k on, t being term k
RECURSIVE ExpSum(_, _, _, _)
ExpSum(x, k, t, acc) ==
  IF t = 0 \/ k > ExpTerms \/ acc >= Big THEN Min(acc, Big)
  ELSE ExpSum(x, k + 1, MulU(t, x) \div (k + 1), acc + t)

\* np.exp(-x) for x >= 0
ExpNeg(x) == DivU(One, ExpSum(x, 0, One, 0))

\* U = V * np.sqrt(1 - b) and W = V * np.sqrt(b)
UOf(V, b) == Mul(V, Sqrt(One - b))

WOf(V, b) == Mul(V, Sqrt(b))

\* kn(ell, W)**2 / kn(ell - 1, W) / kn(ell + 1, W), ell >= 0
Kappa(ell, W) ==
  IF ell = 0 THEN MulU(Rho(0, W), Rho(0, W))
  ELSE DivU(Rho(ell, W), Rho(ell - 1, W))

\* (kn(ell - 1, W) + kn(ell + 1, W)) / kn(ell, W), ell >= 0
KPair(ell, W) ==
  IF ell = 0 THEN 2 * DivU(One, Rho(0, W))
  ELSE Rho(ell - 1, W) + DivU(One, Rho(ell, W))

\* lines 659-666 from U2 = U**2, W2 = W**2, k = kappa_ell and the
\* quotient s of lines 663-664
D2From(V, U2, W, W2, k, s) ==
  Mul(Div(Div(2 * Mul(U2, k), Mul(V, V)), W2),
      Sat(3 * W2 - 2 * Mul(k, W2 - U2)
          + Mul(Mul(Mul(W, W2 + Mul(U2, k)), k - One), s)))

\* the value of _V_d2bV_by_V_scalar, r being what LP_mode_value did
D2Value(V, ell, r) ==
  IF r.ret.kind = "raise" THEN PyRaise
  ELSE IF r.ret.kind = "None" THEN [kind |-> "int", v |-> 0]
  ELSE PyFloat(D2From(V, Square(UOf(V, r.ret.v)), WOf(V, r.ret.v),
                      Square(WOf(V, r.ret.v)), Kappa(ell, WOf(V, r.ret.v)),
                      KPair(ell, WOf(V, r.ret.v))))

D2Of(V, ell, r) == [ret |-> D2Value(V, ell, r), calls |-> r.calls]

_V_d2bV_by_V_scalar(V, ell) == D2Of(V, ell, LP_mode_value(V, ell, 1))

V_d2bV_by_V(V, ell) == _V_d2bV_by_V_scalar(V, ell)

Sqrt2 == 1414214

\* np.sqrt(2) * jv(1, U) / (W * jv(0, U)), q being U * jv(0, U) / jv(1, U)
PetermannFrom(U, W, q) ==
  IF q.kind = "nan" THEN PyNaN ELSE FDiv(Mul(Sqrt2, U), Mul(W, q.v))

PetermannValue(V, r) ==
  IF r.ret.kind = "raise" THEN PyRaise
  ELSE IF r.ret.kind = "None" THEN PyNaN
  ELSE PetermannFrom(UOf(V, r.ret.v), WOf(V, r.ret.v),
                     UJRatio(1, UOf(V, r.ret.v)))

PetermannOf(V, r) == [ret |-> PetermannValue(V, r), calls |-> r.calls]

_PetermannW_scalar(V) == PetermannOf(V, LP_mode_value(V, 0, 1))

PetermannW(V) == _PetermannW_scalar(V)

\* jv(0, U) * V / U * kn(1, W) / kn(0, W)
OmegaFrom(V, U, W) ==
  Div(Mul(Div(Mul(JPlain(0, U), V), U), One), Rho(0, W))

\* 1 - b with b None raises TypeError (line 417)
OmegaValue(V, r) ==
  IF r.ret.kind = "raise" THEN PyRaise
  ELSE IF r.ret.kind = "None" THEN PyRaise
  ELSE PyFloat(OmegaFrom(V, UOf(V, r.ret.v), WOf(V, r.ret.v)))

OmegaOf(V, r) == [ret |-> OmegaValue(V, r), calls |-> r.calls]

gaussian_envelope_Omega(V) == OmegaOf(V, LP_mode_value(V, 0, 1))

\* 1 / Omega**2 * np.exp(-r_over_a**2 / Omega**2), q being Omega**2
IrradianceFrom(r_over_a, q) ==
  IF q = 0 THEN PyNaN
  ELSE PyFloat(Mul(Div(One, q), ExpNeg(Div(Square(r_over_a), q))))

IrradianceOf(r_over_a, o) ==
  [ret |-> IF o.ret.kind = "raise" THEN PyRaise
           ELSE IrradianceFrom(r_over_a, Square(o.ret.v)),
   calls |-> o.calls]

gaussian_radial_irradiance(V, r_over_a) ==
  IrradianceOf(r_over_a, gaussian_envelope_Omega(V))

(***************************************************************************)
(* basics.py and dispersion.py.  Lengths are in micrometres and times in   *)
(* picoseconds, which leaves a dispersion in s/m**2 the number it is.      *)
(***************************************************************************)
\* the names bound in the module basics
BasicsNames ==
  { "np", "jn_zeros", "acceptance_angle", "critical_angle",
    "cutoff_wavelength", "esi_Delta", "esi_radius", "esi_V_parameter",
    "numerical_aperture", "numerical_aperture_from_Delta",
    "numerical_aperture_graded_index", "relative_refractive_index",
    "R_par", "R_per", "R_unpolarized", "V_parameter" }

\* ofb.name: an attribute the module does not have raises AttributeError
HasAttr(name) == name \in BasicsNames

\* q * (2 + q) / (1 + q)**2 * Delta
esi_Delta(Delta, q) ==
  Mul(Div(Mul(q, 2 * One + q), Square(One + q)), Delta)

\* V * np.sqrt(q / (q + 2))
esi_V_parameter(V, q) == Mul(V, Sqrt(Div(q, q + 2 * One)))

\* scipy.constants.speed_of_light
SpeedOfLight == 299792458

\* lines 57 and 58
DispersionDelta(n1, n2) ==
  Div(Div(Square(n1) - Square(n2), 2 * One), Square(n1))

DispersionV(n1, n2, a, lambda0) ==
  Mul(Mul(Div(2 * Pi, lambda0), a), Sqrt(Square(n1) - Square(n2)))

\* line 62, d being what V_d2bV_by_V did
DispersionFrom(n2, eDelta, lambda0, d) ==
  [ret |-> IF d.ret.kind = "raise" THEN PyRaise
           ELSE PyFloat(Mul(Div(Div(-Mul(n2, eDelta), SpeedOfLight), lambda0),
                            d.ret.v)),
   calls |-> d.calls]

Waveguide_Dispersion(n1, n2, a, lambda0, q) ==
  IF ~HasAttr("esi_delta") \/ ~HasAttr("esi_v_parameter")
  THEN [ret |-> PyRaise, calls |-> << >>]
  ELSE DispersionFrom(n2, esi_Delta(DispersionDelta(n1, n2), q), lambda0,
                      V_d2bV_by_V(esi_V_parameter(DispersionV(n1, n2, a, lambda0),
                                                  q), 0))

(***************************************************************************)
(* planar_step.py: the solver                                              *)
(***************************************************************************)
\* lo and hi of TE_crossing and TM_crossing
\* variant: every mode is searched from the lower end of mode 0
PlanarLo_First(mode) == abit

PlanarLo(mode) == abit + (mode * Pi) \div 2

PlanarHi(V, mode) == Min(Pi \div 2 - abit + (mode * Pi) \div 2, V \div 2)

\* variant: the 0 is returned on the first such call only
NoCrossing_Once ==
  IF earlier.op = "none" THEN [kind |-> "int", v |-> 0] ELSE [kind |-> "None", v |-> 0]

\* the 0 returned where no mode exists
NoCrossing == [kind |-> "int", v |-> 0]

\* What one call of TE_crossing or TM_crossing did:
\*   ret    the value returned
\*   brent  "no" when brentq was not called, else how brentq ended
\*   lo, hi the bracket
PlanarOutcome(V, mode, r, br, l, h) ==
  [V |-> V, mode |-> mode, ret |-> r, brent |-> br, lo |-> l, hi |-> h]

\* variant: the ValueError of brentq is not caught
CrossingValueError_Raise == PyRaise

\* the except clause: a ValueError of brentq is no mode
CrossingValueError == NoCrossing

\* the try statement and the return after it: r is how brentq ended
CrossingSolved(V, mode, lo, hi, r) ==
  PlanarOutcome(V, mode,
                IF r.kind = "root" THEN PyFloat(r.v)
                ELSE IF r.kind = "raise" THEN PyRaise
                ELSE CrossingValueError,
                r.kind, lo, hi)

\* variant: brentq is invoked whatever the bracket
CrossingBracket_NoGuard(fn, V, mode, lo, hi) ==
  CrossingSolved(V, mode, lo, hi, brentq(fn, lo, hi))

\* from "if lo > V / 2" on, fn being the eigenvalue equation with its args
CrossingBracket(fn, V, mode, lo, hi) ==
  IF lo > V \div 2 THEN PlanarOutcome(V, mode, NoCrossing, "no", lo, hi)
  ELSE CrossingSolved(V, mode, lo, hi, brentq(fn, lo, hi))

TE_crossing(V, mode) ==
  CrossingBracket(Fn("_TE_mode", << V, mode >>), V, mode,
                  PlanarLo(mode), PlanarHi(V, mode))

TM_crossing(V, n1, n2, mode) ==
  CrossingBracket(Fn("_TM_mode", << V, n1, n2, mode >>), V, mode,
                  PlanarLo(mode), PlanarHi(V, mode))

\* int() of a float
Trunc(x) == Sgn(x) * (Abs(x) \div One)

\* variant: the count without the 1 added
TE_ncross_Floor(V) == Trunc(Div(V, Pi))

\* ncross of TE_crossings
TE_ncross(V) == Trunc(Div(V, Pi)) + 1

\* variant: V / 2 is not divided by pi / 2
TM_ncross_HalfV(V) == Trunc(Div(V, 2 * One)) + 1

\* ncross of TM_crossings
TM_ncross(V) == Trunc(Div(Div(V, 2 * One), Div(Pi, 2 * One))) + 1

\* the calls of the loop that raised
Raised(cs) == { i \in 1..Len(cs) : cs[i].ret.kind = "raise" }

\* the number of calls the loop makes: up to the first one that raises
LoopLen(cs) ==
  IF Raised(cs) = {} THEN Len(cs)
  ELSE CHOOSE i \in Raised(cs) : \A j \in Raised(cs) : i <= j

\* np.empty(ncross) and the loop that fills it, cs[i] being what the call
\* for mode i - 1 does; np.empty raises ValueError for ncross < 0
Crossings(ncross, cs) ==
  IF ncross < 0 THEN [ret |-> PyRaise, arr |-> << >>, calls |-> << >>]
  ELSE IF Raised(cs) # {}
  THEN [ret |-> PyRaise, arr |-> << >>, calls |-> SubSeq(cs, 1, LoopLen(cs))]
  ELSE [ret |-> PyArray, arr |-> [i \in 1..ncross |-> cs[i].ret.v],
        calls |-> cs]

TE_crossings(V) ==
  Crossings(TE_ncross(V), [i \in 1..TE_ncross(V) |-> TE_crossing(V, i - 1)])

TM_crossings(V, n1, n2) ==
  Crossings(TM_ncross(V),
            [i \in 1..TM_ncross(V) |-> TM_crossing(V, n1, n2, i - 1)])


(***************************************************************************)
(* planar_parabolic.py: the solver                                         *)
(***************************************************************************)
\* lo and hi of parabolic_crossing (lines 150-151)
ParabolicLo(mode) == abit + (mode * Pi) \div 2

ParabolicHi(V, mode) == Min(Pi \div 2 - abit + (mode * Pi) \div 2, V \div 2)

\* lines 152-160: the guard, the try statement and the return have the form
\* of those of planar_step.py
parabolic_crossing(V, mode) ==
  CrossingBracket(Fn("_parabolic_mode", << V, mode >>), V, mode,
                  ParabolicLo(mode), ParabolicHi(V, mode))

\* ncross of parabolic_crossings (line 175)
parabolic_ncross(V) == Trunc(Div(V, Pi)) + 1

parabolic_crossings(V) ==
  Crossings(parabolic_ncross(V),
            [i \in 1..parabolic_ncross(V) |-> parabolic_crossing(V, i - 1)])

(***************************************************************************)
(* planar_step.py: the field and the propagation constant of a mode        *)
(***************************************************************************)
\* np.sin and np.cos: the series is used on x less the multiple of pi
\* nearest to it
HalfTurns(x) == (2 * x + Pi) \div (2 * Pi)

NpSin(x) ==
  (IF HalfTurns(x) % 2 = 0 THEN 1 ELSE -1) * Sin(x - HalfTurns(x) * Pi)

NpCos(x) ==
  (IF HalfTurns(x) % 2 = 0 THEN 1 ELSE -1) * Cos(x - HalfTurns(x) * Pi)

\* np.exp
NpExp(y) == IF y <= 0 THEN ExpNeg(-y) ELSE ExpSum(y, 0, One, 0)

\* (V / 2)**2 - xi**2
FieldRadicand(V, xi) == Square(V \div 2) - Square(xi)

\* gdby2, xgamma and kappa of _basic_field
Gdby2(V, xi) == Sqrt(FieldRadicand(V, xi))
XGamma(V, d, x, xi) == Mul(Mul(Div(2 * One, d), Gdby2(V, xi)), Abs(x))
FieldKappa(d, xi) == Mul(Div(2 * One, d), xi)

\* variant: the tail of an odd mode takes no sign from x
TailSign_Plain(x) == 1

\* np.sign(x)
TailSign(x) == Sgn(x)

\* A and B of _basic_field at one position x
FieldA(d, x, mode, xi) ==
  IF mode % 2 = 0 THEN NpCos(Mul(FieldKappa(d, xi), x))
  ELSE NpSin(Mul(FieldKappa(d, xi), x))

FieldB(V, d, x, mode, xi) ==
  IF mode % 2 = 0
  THEN Mul(NpCos(xi), NpExp(Gdby2(V, xi) - XGamma(V, d, x, xi)))
  ELSE Mul(NpSin(xi) * TailSign(x), NpExp(Gdby2(V, xi) - XGamma(V, d, x, xi)))

\* np.where(abs(x) < d / 2, A, B) at one position; the square root of a
\* negative number is nan
FieldAt(V, d, x, mode, xi) ==
  IF FieldRadicand(V, xi) < 0 THEN PyNaN
  ELSE IF Abs(x) < d \div 2 THEN PyFloat(FieldA(d, x, mode, xi))
  ELSE PyFloat(FieldB(V, d, x, mode, xi))

\* _basic_field(V, d, x, mode, xi), x an array of positions and d > 0
_basic_field(V, d, x, mode, xi) ==
  [i \in 1..Len(x) |-> FieldAt(V, d, x[i], mode, xi)]

\* the field of the mode whose crossing call did c
FieldOf(V, d, x, mode, c) ==
  IF c.ret.kind = "raise"
  THEN [ret |-> PyRaise, arr |-> << >>, calls |-> << c >>]
  ELSE [ret |-> PyArray, arr |-> _basic_field(V, d, x, mode, c.ret.v),
        calls |-> << c >>]

TE_field(V, d, x, mode) == FieldOf(V, d, x, mode, TE_crossing(V, mode))

TM_field(V, n1, n2, d, x, mode) ==
  FieldOf(V, d, x, mode, TM_crossing(V, n1, n2, mode))

MaxVIdx == 15
MaxEll == 2
MaxEm == 3
MaxMode == 3

VStep == One \div 2

\* V-parameters called with: a grid from -0.5 to MaxVIdx/2 ...
VGrid == { k * VStep : k \in -1..MaxVIdx }

\* ... and two large ones, for the first radial order only
VLarge == 150 * One
VHuge == 800 * One

\* ... the first positive zero of J_0, the cutoff bound of LP_02
VZero == JZeroTable[1][1]

\* ... and one at which more than 9 modes of order 0 are guided
VCap == 30 * One

\* a V-parameter just above pi, where the second planar mode begins
VEdge == Pi + 5

\* the V-parameter whose half is the lower bracket bound of mode 1
VSame == 2 * PlanarLo(1)

\* V-parameters the planar solver is called with
PlanarVs == VGrid \cup {VEdge, VSame}

Ells == -MaxEll..MaxEll
Ems == -1..MaxEm
Modes == 0..MaxMode

\* refractive indices called with
Indices == { One, (3 * One) \div 2 }

(***************************************************************************)
(* refraction.py.  A string is the sequence of its characters.             *)
(***************************************************************************)
GlassNames ==
  << << "S", "i", "O", "2" >>, << "G", "e", "O", "2" >>,
     << "9", ".", "1", "%", " ", "P", "2", "O", "2" >>,
     << "1", "3", ".", "3", "%", " ", "B", "2", "O", "3" >>,
     << "1", ".", "0", "%", " ", "F" >>,
     << "1", "6", ".", "9", "%", " ", "N", "a", "2", "O", " ", ":", " ", "3", "2", ".", "5", "%", " ", "B", "2", "O", "3" >>,
     << "A", "B", "C", "Y" >>, << "H", "B", "L" >>, << "Z", "B", "G" >>,
     << "Z", "B", "L", "A" >>, << "Z", "B", "L", "A", "N" >>,
     << "5", ".", "2", "%", " ", "B", "2", "O", "3" >>,
     << "1", "0", ".", "5", "%", " ", "P", "2", "O", "2" >>,
     << "N", "-", "B", "K", "7" >>,
     << "f", "u", "s", "e", "d", " ", "s", "i", "l", "i", "c", "a" >>,
     << "s", "a", "p", "p", "h", "i", "r", "e", " ", "(", "o", "r", "d", "i", "n", "a", "r", "y", ")" >>,
     << "s", "a", "p", "p", "h", "i", "r", "e", " ", "(", "e", "x", "t", "r", "a", "o", "r", "d", "i", "n", "a", "r", "y", ")" >>,
     << "M", "g", "F", "2", " ", "(", "o", "r", "d", "i", "n", "a", "r", "y", ")" >>,
     << "M", "g", "F", "2", " ", "(", "e", "x", "t", "r", "a", "o", "r", "d", "i", "n", "a", "r", "y", ")" >>,
     << "C", "a", "F", "2" >>, << "F", "2" >>, << "F", "5" >>,
     << "F", "K", "5", "H", "T", "i" >>, << "K", "1", "0" >>, << "K", "7" >>,
     << "L", "A", "F", "N", "7" >>, << "L", "A", "S", "F", "3", "5" >>,
     << "L", "F", "5" >>, << "L", "F", "5", "H", "T", "i" >>,
     << "L", "L", "F", "1" >>, << "L", "L", "F", "1", "H", "T" >>,
     << "N", "-", "B", "A", "F", "1" >>, << "N", "-", "B", "A", "F", "4" >>,
     << "N", "-", "B", "A", "F", "5" >>, << "N", "-", "B", "A", "F", "5" >>,
     << "N", "-", "B", "A", "K", "1" >>, << "N", "-", "B", "A", "K", "2" >>,
     << "N", "-", "B", "A", "K", "4" >>, << "N", "-", "B", "A", "L", "F" >>,
     << "N", "-", "B", "A", "L", "F" >>, << "N", "-", "B", "A", "S", "F" >>,
     << "N", "-", "B", "A", "S", "F" >>, << "N", "-", "B", "K", "1", "0" >>,
     << "N", "-", "F", "2" >>, << "N", "-", "F", "K", "5" >>,
     << "N", "-", "F", "K", "5", "1" >>, << "N", "-", "F", "K", "5", "8" >>,
     << "N", "-", "K", "5" >>, << "N", "-", "K", "F", "9" >>,
     << "N", "-", "K", "Z", "F", "S" >>, << "N", "-", "K", "Z", "F", "S" >>,
     << "N", "-", "K", "Z", "F", "S" >>, << "N", "-", "K", "Z", "F", "S" >>,
     << "N", "-", "K", "Z", "F", "S" >>, << "N", "-", "L", "A", "F", "2" >>,
     << "N", "-", "L", "A", "F", "2" >>, << "N", "-", "L", "A", "F", "3" >>,
     << "N", "-", "L", "A", "F", "3" >>, << "N", "-", "L", "A", "F", "3" >>,
     << "N", "-", "L", "A", "F", "7" >>, << "N", "-", "L", "A", "K", "1" >>,
     << "N", "-", "L", "A", "K", "1" >>, << "N", "-", "L", "A", "K", "1" >>,
     << "N", "-", "L", "A", "K", "2" >>, << "N", "-", "L", "A", "K", "2" >>,
     << "N", "-", "L", "A", "K", "3" >>, << "N", "-", "L", "A", "K", "3" >>,
     << "N", "-", "L", "A", "K", "7" >>, << "N", "-", "L", "A", "K", "8" >>,
     << "N", "-", "L", "A", "K", "9" >>, << "N", "-", "L", "A", "S", "F" >>,
     << "N", "-", "L", "A", "S", "F" >>, << "N", "-", "L", "A", "S", "F" >>,
     << "N", "-", "L", "A", "S", "F" >>, << "N", "-", "L", "A", "S", "F" >>,
     << "N", "-", "L", "A", "S", "F" >>, << "N", "-", "L", "A", "S", "F" >>,
     << "N", "-", "L", "A", "S", "F" >>, << "N", "-", "L", "A", "S", "F" >>,
     << "N", "-", "P", "K", "5", "1" >>, << "N", "-", "P", "K", "5", "2" >>,
     << "N", "-", "P", "S", "K", "3" >>, << "N", "-", "P", "S", "K", "5" >>,
     << "N", "-", "S", "F", "1" >>, << "N", "-", "S", "F", "1", "0" >>,
     << "N", "-", "S", "F", "1", "1" >>, << "N", "-", "S", "F", "1", "4" >>,
     << "N", "-", "S", "F", "1", "5" >>, << "N", "-", "S", "F", "2" >>,
     << "N", "-", "S", "F", "4" >>, << "N", "-", "S", "F", "5" >>,
     << "N", "-", "S", "F", "5", "7" >>, << "N", "-", "S", "F", "6" >>,
     << "N", "-", "S", "F", "6", "6" >>, << "N", "-", "S", "F", "6", "H" >>,
     << "N", "-", "S", "F", "8" >>, << "N", "-", "S", "K", "1", "1" >>,
     << "N", "-", "S", "K", "1", "4" >>, << "N", "-", "S", "K", "1", "6" >>,
     << "N", "-", "S", "K", "2" >>, << "N", "-", "S", "K", "4" >>,
     << "N", "-", "S", "K", "5" >>, << "N", "-", "S", "S", "K", "2" >>,
     << "N", "-", "S", "S", "K", "5" >>, << "N", "-", "S", "S", "K", "8" >>,
     << "N", "-", "Z", "K", "7" >>, << "N", "-", "Z", "K", "7", "A" >>,
     << "P", "-", "B", "K", "7" >>, << "P", "-", "L", "A", "F", "3" >>,
     << "P", "-", "L", "A", "K", "3" >>, << "P", "-", "L", "A", "S", "F" >>,
     << "P", "-", "L", "A", "S", "F" >>, << "P", "-", "L", "A", "S", "F" >>,
     << "P", "-", "S", "F", "6", "8" >>, << "P", "-", "S", "F", "6", "9" >>,
     << "P", "-", "S", "F", "8" >>, << "P", "-", "S", "K", "5", "7" >>,
     << "P", "-", "S", "K", "5", "7" >>, << "P", "-", "S", "K", "5", "8" >>,
     << "P", "-", "S", "K", "6", "0" >>, << "S", "F", "1" >>,
     << "S", "F", "1", "0" >>, << "S", "F", "1", "1" >>, << "S", "F", "2" >>,
     << "S", "F", "4" >>, << "S", "F", "5" >>, << "S", "F", "5", "6", "A" >>,
     << "S", "F", "5", "7" >> >>

LowerCase ==
  << "a", "b", "c", "d", "e", "f", "g", "h", "i", "j", "k", "l", "m",
     "n", "o", "p", "q", "r", "s", "t", "u", "v", "w", "x", "y", "z" >>

UpperCase ==
  << "A", "B", "C", "D", "E", "F", "G", "H", "I", "J", "K", "L", "M",
     "N", "O", "P", "Q", "R", "S", "T", "U", "V", "W", "X", "Y", "Z" >>

\* the place of the character c in the alphabet abc, or 0
PlaceIn(abc, c) ==
  IF \E i \in 1..Len(abc) : abc[i] = c
  THEN CHOOSE i \in 1..Len(abc) : abc[i] = c
  ELSE 0

\* str.upper()
Upper(s) ==
  [i \in 1..Len(s) |->
     IF PlaceIn(LowerCase, s[i]) = 0 THEN s[i]
     ELSE UpperCase[PlaceIn(LowerCase, s[i])]]

\* t in s
Contains(s, t) ==
  \E k \in 0..(Len(s) - Len(t)) : \A j \in 1..Len(t) : s[k + j] = t[j]

\* variant: the name in the table is compared as it is written
TableUpper_Plain(s) == s

\* i_glass_name.upper() of line 366
TableUpper(s) == Upper(s)

\* the indices, from 0, at which the loop of lines 365-367 would return
Found(target) ==
  { i \in 0..(Len(ALL_GLASS_NAMES) - 1) :
      Contains(TableUpper(ALL_GLASS_NAMES[i + 1]), target) }

\* variant: -1 is returned where nothing was found
FirstOf_Minus(is) ==
  IF is = {} THEN -1 ELSE CHOOSE i \in is : \A j \in is : i <= j

\* the first of them, or the 0 of line 370
FirstOf(is) ==
  IF is = {} THEN 0 ELSE CHOOSE i \in is : \A j \in is : i <= j

find_glass(name) == [kind |-> "int", v |-> FirstOf(Found(Upper(name)))]

\* ALL_GLASS_NAMES[i]; an index from the end is negative, one outside raises
glass_name(i) ==
  IF i >= Len(ALL_GLASS_NAMES) \/ i < -Len(ALL_GLASS_NAMES) THEN PyRaise
  ELSE [kind |-> "str",
        v |-> ALL_GLASS_NAMES[IF i >= 0 THEN i + 1
                              ELSE Len(ALL_GLASS_NAMES) + i + 1]]

(***************************************************************************)
(* refraction.py: the table of Sellmeier coefficients, [c1, c2, c3, b1,    *)
(* b2, b3] for each glass, and the functions that read it.  Wavelengths    *)
(* are in micrometres, derivatives per micrometre.                         *)
(***************************************************************************)
GlassRows ==
  << << 4679, 13512, 97934002, 696166, 407943, 897479 >>,
     << 4757, 23706, 140231330, 806866, 718158, 854168 >>,
     << 3791, 14381, 74937433, 695790, 452497, 712513 >>,
     << 3832, 15292, 82791073, 690618, 401996, 898817 >>,
     << 4655, 13563, 99874180, 691116, 399166, 890423 >>,
     << 8904, 8721, 35995824, 796468, 497614, 358924 >>,
     << 45408, -14, 309549568, 130355, 913765, 1142078 >>,
     << -156, 7325, 596822762, 20, 1258852, 2118574 >>,
     << 331, 9530, 385595295, 350883, 936324, 1459635 >>,
     << 0, 8956, 239968296, 32839, 1255799, 897177 >>,
     << -24049, 17374, 402611805, 305901, 918319, 1506954 >>,
     << 4982, 13757, 97933530, 691002, 402243, 943964 >>,
     << 5202, 12877, 97934010, 705849, 417602, 895275 >>,
     << 6001, 20018, 103560653, 1039612, 231792, 1010469 >>,
     << 4679, 13512, 97934002, 696166, 407943, 897479 >>,
     << 5280, 14238, 325017834, 1431349, 650547, 5341402 >>,
     << 5480, 14799, 402895140, 1503976, 550691, 6592738 >>,
     << 1882, 8952, 566135591, 487551, 398750, 2312035 >>,
     << 1357, 8238, 565107755, 413440, 504975, 2490486 >>,
     << 2526, 10078, 1200555970, 567589, 471091, 3848472 >>,
     << 9977, 47045, 111886764, 1345334, 209073, 937357 >>,
     << 9586, 45763, 115011883, 1310446, 196034, 966130 >>,
     << 5201, 15894, 95910945, 909362, 279077, 891813 >>,
     << 8094, 38605, 104747730, 1156871, 64263, 872376 >>,
     << 7203, 26984, 100384588, 1127356, 124412, 827101 >>,
     << 10316, 46922, 82507851, 1668426, 298513, 1077438 >>,
     << 13567, 54580, 167904715, 2455059, 453006, 2385131 >>,
     << 9299, 44914, 110493685, 1280356, 163506, 893930 >>,
     << 9399, 45257, 110544829, 1285529, 158358, 892175 >>,
     << 8578, 42014, 107593060, 1216401, 133665, 883399 >>,
     << 8704, 42733, 108049968, 1225104, 125156, 892237 >>,
     << 9267, 42449, 105613573, 1585150, 143559, 1085213 >>,
     << 9420, 53109, 110278856, 1420563, 102721, 1143810 >>,
     << 9427, 43083, 124889868, 1515036, 153622, 1154279 >>,
     << 9078, 50821, 105691856, 1439034, 96705, 1098758 >>,
     << 6447, 22228, 107297751, 1123657, 309277, 881512 >>,
     << 5924, 20383, 113118417, 1016622, 319903, 937233 >>,
     << 7800, 31563, 105965875, 1288346, 132818, 945395 >>,
     << 7966, 33067, 109197320, 1310041, 142038, 964929 >>,
     << 8258, 44192, 107097324, 1283860, 71930, 1050489 >>,
     << 10844, 56228, 131339700, 1536521, 156971, 1301968 >>,
     << 10449, 49939, 118961472, 1655543, 171320, 1336644 >>,
     << 5169, 16119, 99757533, 888308, 328964, 984611 >>,
     << 9959, 54693, 119248346, 1397570, 159201, 1268654 >>,
     << 4751, 14981, 97860029, 844309, 344148, 910790 >>,
     << 4723, 15358, 168681330, 971248, 216901, 904652 >>,
     << 3391, 11755, 212842145, 738043, 363372, 989296 >>,
     << 6611, 24111, 111982777, 1085118, 199562, 930512 >>,
     << 8392, 40401, 112572446, 1192868, 89335, 920820 >>,
     << 8403, 34424, 88431053, 1332224, 289242, 1151617 >>,
     << 7472, 30805, 70173108, 1236976, 153569, 903976 >>,
     << 8763, 37177, 90386699, 1350554, 197576, 1099630 >>,
     << 9861, 44548, 106436258, 1474608, 193584, 1265900 >>,
     << 10881, 49421, 131009163, 1626937, 243699, 1620071 >>,
     << 10171, 44243, 100687748, 1809842, 157296, 1093004 >>,
     << 9333, 34564, 83240487, 1871345, 250783, 1220486 >>,
     << 9273, 35820, 87344871, 1796534, 311578, 1159819 >>,
     << 8728, 29302, 85178064, 1758370, 313538, 1189252 >>,
     << 7509, 26005, 80594516, 1516974, 455875, 1074692 >>,
     << 10793, 53863, 106268665, 1740288, 226711, 1325255 >>,
     << 8860, 36342, 82900907, 1728780, 169258, 1193870 >>,
     << 5770, 20040, 95487348, 1173657, 588992, 978014 >>,
     << 7461, 24202, 80956516, 1507812, 318867, 1142872 >>,
     << 6021, 19686, 88437010, 1227181, 420784, 1012848 >>,
     << 5858, 19855, 100834017, 1142298, 535138, 1040884 >>,
     << 6703, 21942, 80740770, 1422886, 593661, 1161353 >>,
     << 5893, 19751, 78889417, 1266614, 665919, 1124961 >>,
     << 6101, 20139, 90638038, 1236799, 445052, 1017459 >>,
     << 6200, 21647, 82582774, 1331832, 546623, 1190840 >>,
     << 7243, 24335, 85468687, 1462319, 344400, 1155084 >>,
     << 9821, 34471, 110739863, 1964851, 475231, 1483601 >>,
     << 10958, 47455, 96908529, 1985503, 274057, 1289457 >>,
     << 9104, 33925, 93358060, 1863483, 413307, 1357848 >>,
     << 10400, 44751, 87437569, 1935028, 236629, 1262913 >>,
     << 8725, 30809, 92774382, 1788971, 386759, 1305062 >>,
     << 11217, 50513, 147106505, 1871402, 267778, 1730300 >>,
     << 12360, 56061, 107047718, 2167016, 319813, 1660045 >>,
     << 12581, 56719, 105316538, 2179889, 306495, 1568824 >>,
     << 12143, 53874, 156530829, 2000295, 298927, 1806918 >>,
     << 5856, 19407, 140537046, 1156108, 153229, 785619 >>,
     << 5168, 16666, 138964129, 1029607, 188051, 736488 >>,
     << 4698, 16182, 104374975, 887272, 489592, 1048653 >>,
     << 7064, 23325, 97484734, 1381218, 196746, 886089 >>,
     << 11965, 59059, 135521676, 1608652, 237726, 1515307 >>,
     << 12224, 59574, 147468793, 1621539, 256288, 1644476 >>,
     << 13189, 62307, 155236290, 1737597, 313747, 1898781 >>,
     << 13051, 61369, 149517689, 1690224, 288870, 1704519 >>,
     << 11651, 59786, 132709339, 1570556, 218987, 1508240 >>,
     << 10902, 58568, 127404933, 1473431, 163682, 1369209 >>,
     << 12679, 60204, 145760496, 1677803, 282850, 1635393 >>,
     << 11255, 58900, 129141675, 1524819, 187086, 1427290 >>,
     << 14175, 64051, 177389795, 1875438, 373757, 2300018 >>,
     << 13371, 61753, 174017590, 1779318, 338150, 2087345 >>,
     << 14705, 69300, 161817601, 2024598, 470187, 2599704 >>,
     << 13371, 61753, 174017590, 1779318, 338150, 2087345 >>,
     << 11434, 58273, 133241650, 1550758, 209817, 1462055 >>,
     << 6803, 21974, 101513232, 1179636, 229817, 935790 >>,
     << 4617, 16886, 103736265, 936155, 594052, 1043746 >>,
     << 7047, 22900, 92750853, 1343178, 241144, 994318 >>,
     << 7272, 24282, 110377773, 1281890, 257738, 968186 >>,
     << 7169, 24646, 100886364, 1329937, 228543, 988465 >>,
     << 5227, 17273, 98359458, 991464, 495982, 987394 >>,
     << 8240, 33374, 106870822, 1430603, 153151, 1013909 >>,
     << 9203, 42353, 106927374, 1592227, 103521, 1051740 >>,
     << 8693, 42157, 111300666, 1448579, 117966, 1069375 >>,
     << 6766, 23064, 89049878, 1077150, 168079, 851890 >>,
     << 6766, 23064, 89049878, 1075099, 168895, 860504 >>,
     << 7221, 26822, 101702362, 1183185, 87176, 1031337 >>,
     << 9380, 36054, 86432469, 1760032, 248287, 1159351 >>,
     << 7160, 23364, 88328443, 1393243, 418883, 1043807 >>,
     << 10033, 38710, 94542151, 1855431, 315855, 1285618 >>,
     << 9992, 38744, 95896768, 1849106, 329829, 1304009 >>,
     << 9885, 37810, 97841543, 1845688, 339002, 1324189 >>,
     << 16884, 71609, 118707479, 2333007, 452961, 1251723 >>,
     << 12170, 60071, 145651908, 1625946, 235928, 1674346 >>,
     << 11658, 58209, 130748028, 1553704, 206333, 1397088 >>,
     << 7409, 25456, 107751087, 1310534, 169376, 1109877 >>,
     << 7364, 25579, 106726060, 1305365, 171434, 1101172 >>,
     << 7207, 24566, 102739728, 1316784, 171155, 1125015 >>,
     << 7844, 28777, 105373397, 1407904, 143381, 1165139 >>,
     << 12148, 53455, 112174809, 1559129, 284246, 968843 >>,
     << 12753, 58198, 116607680, 1616260, 259229, 1077623 >>,
     << 13607, 61596, 121922711, 1738484, 311169, 1174909 >>,
     << 10580, 49323, 112405955, 1403018, 231768, 939057 >>,
     << 12550, 54456, 117652222, 1619578, 339493, 1025669 >>,
     << 11183, 50859, 112041888, 1461419, 247713, 949996 >>,
     << 13387, 57956, 121616024, 1705793, 344223, 1096018 >>,
     << 14370, 59280, 121419942, 1816514, 428894, 1071863 >> >>

\* variant: n() scales the first row in place
GlassAfter_Scaled(name, t) ==
  IF name = "n" THEN [t EXCEPT ![1] = [j \in 1..6 |-> 2 * t[1][j]]] ELSE t

\* _GLASS after the call of name: no function assigns to it or to a row
GlassAfter(name, t) == t

\* _GLASS[i]: the row itself
glass(i) ==
  IF i >= Len(_GLASS) \/ i < -Len(_GLASS)
  THEN [ret |-> PyRaise, arr |-> << >>, calls |-> << >>]
  ELSE [ret |-> [kind |-> "list", v |-> 0],
        arr |-> _GLASS[IF i >= 0 THEN i + 1 ELSE Len(_GLASS) + i + 1],
        calls |-> << >>]

\* the constants of doped_glass
SA == << 696166, 407943, 897479 >>
SL == << 68404, 116241, 9896161 >>
GA == << 806866, 718158, 854168 >>
GL == << 68973, 153966, 11841931 >>

\* np.concatenate([a, b]) of lines 387-389
doped_glass(x) ==
  [ret |-> PyArray,
   arr |-> [j \in 1..6 |->
              IF j <= 3 THEN Square(SL[j] + Mul(x, GL[j] - SL[j]))
              ELSE Abs(SA[j - 3] + Mul(x, GA[j - 3] - SA[j - 3]))],
   calls |-> << >>]

\* b[i] * lam2 / (lam2 - c[i])
NsqTerm(b, c, lam2) == Mul(b, Div(lam2, lam2 - c))

_sellmeier(b, c, lambda0) ==
  Sqrt(One + NsqTerm(b[1], c[1], Square(lambda0))
           + NsqTerm(b[2], c[2], Square(lambda0))
           + NsqTerm(b[3], c[3], Square(lambda0)))

\* b[i] * c[i] / (lam2 - c[i])**2
DyTerm(b, c, lam2) == Div(Mul(b, Div(c, lam2 - c)), lam2 - c)

_d_sellmeier(b, c, lambda0) ==
  Mul(-(DyTerm(b[1], c[1], Square(lambda0))
        + DyTerm(b[2], c[2], Square(lambda0))
        + DyTerm(b[3], c[3], Square(lambda0))),
      Div(lambda0, _sellmeier(b, c, lambda0)))

\* b[i] * c[i] * (3 * lam2 + c[i]) / (lam2 - c[i])**3
D2yTerm(b, c, lam2) == Div(Mul(DyTerm(b, c, lam2), 3 * lam2 + c), lam2 - c)

\* line 480 from nn, lam2, the dy left by the last round of the loop
\* (line 477 assigns it) and d2y
D2Total(nn, lam2, dy, d2y) ==
  Div(d2y, nn) - Div(Mul(lam2, Square(dy)), Mul(nn, Square(nn)))

_d2_sellmeier(b, c, lambda0) ==
  D2Total(_sellmeier(b, c, lambda0), Square(lambda0),
          DyTerm(b[3], c[3], Square(lambda0)),
          D2yTerm(b[1], c[1], Square(lambda0))
          + D2yTerm(b[2], c[2], Square(lambda0))
          + D2yTerm(b[3], c[3], Square(lambda0)))

\* glass_coef[3:6] and glass_coef[0:3] are new lists
n(glass_coef, lambda0) ==
  _sellmeier(SubSeq(glass_coef, 4, 6), SubSeq(glass_coef, 1, 3), lambda0)

dn(glass_coef, lambda0) ==
  _d_sellmeier(SubSeq(glass_coef, 4, 6), SubSeq(glass_coef, 1, 3), lambda0)

d2n(glass_coef, lambda0) ==
  _d2_sellmeier(SubSeq(glass_coef, 4, 6), SubSeq(glass_coef, 1, 3), lambda0)

n_group(glass_coef, lambda0) ==
  n(glass_coef, lambda0) - Mul(lambda0, dn(glass_coef, lambda0))

\* dispersion.py: -lambda0 * ofr.d2n(glass, lambda0) / c
Material_Dispersion(glass_coef, lambda0) ==
  Div(-Mul(lambda0, d2n(glass_coef, lambda0)), SpeedOfLight)

\* cylinder_step.py: 0.080 + 0.549 * (2.834 - V)**2
V_d2bV_by_V_Approx(V) ==
  (8 * One) \div 100
  + Mul((549 * One) \div 1000, Square((2834 * One) \div 1000 - V))

\* dispersion.py, lines 79-85
Waveguide_Dispersion_Approx(n1, n2, a, lambda0, q) ==
  IF ~HasAttr("esi_delta") \/ ~HasAttr("esi_v_parameter")
  THEN [ret |-> PyRaise, calls |-> << >>]
  ELSE DispersionFrom(n2, esi_Delta(DispersionDelta(n1, n2), q), lambda0,
         [ret |-> PyFloat(V_d2bV_by_V_Approx(
                    esi_V_parameter(DispersionV(n1, n2, a, lambda0), q))),
          calls |-> << >>])

\* lines 107-111 from n1
DispersionFor(n1, Delta, a, lambda0, q, approx) ==
  IF approx
  THEN Waveguide_Dispersion_Approx(n1, Mul(n1, One - Delta), a, lambda0, q)
  ELSE Waveguide_Dispersion(n1, Mul(n1, One - Delta), a, lambda0, q)

Waveguide_Dispersion_Delta(glass_coef, Delta, a, lambda0, q, approx) ==
  DispersionFor(n(glass_coef, lambda0), Delta, a, lambda0, q, approx)

\* Dw + Dm of line 133
DispersionSum(Dm, w) ==
  [ret |-> IF w.ret.kind = "raise" THEN PyRaise ELSE PyFloat(w.ret.v + Dm),
   calls |-> w.calls]

Total_Dispersion(glass_coef, Delta, a, lambda0, q, approx) ==
  DispersionSum(Material_Dispersion(glass_coef, lambda0),
                Waveguide_Dispersion_Delta(glass_coef, Delta, a, lambda0, q,
                                           approx))

\* calls counted after the remembered one
MaxSince == 1

\* nothing remembered yet
NoEarlier ==
  [op |-> "none", args |-> << >>, ret |-> PyNone, arr |-> << >>, since |-> 0]

Init ==
  /\ op = "idle"
  /\ args = << >>
  /\ ret = PyNone
  /\ arr = << >>
  /\ calls = << >>
  /\ earlier = NoEarlier
  /\ _GLASS = GlassRows
  /\ ALL_GLASS_NAMES = GlassNames

\* the call name(a) ends as r describes
Returns(name, a, r) ==
  /\ op' = name
  /\ args' = a
  /\ ret' = r.ret
  /\ arr' = r.arr
  /\ calls' = r.calls
  /\ earlier' = earlier
  /\ _GLASS' = GlassAfter(name, _GLASS)
  /\ ALL_GLASS_NAMES' = ALL_GLASS_NAMES

\* a scalar result has no array
NoArray(r) == [ret |-> r.ret, arr |-> << >>, calls |-> r.calls]

\* a function that returns an array unless it raises
ArrayResult(r) ==
  [ret |-> IF r.ret.kind = "raise" THEN PyRaise ELSE PyArray,
   arr |-> r.arr, calls |-> r.calls]

Call_LP_mode_value ==
  /\ op = "idle"
  /\ \E V \in VGrid \cup {VLarge, VHuge, VZero}, ell \in Ells, em \in Ems :
       /\ V \in {VLarge, VHuge} => em = 1
       /\ V = VZero => ell = 0
       /\ Returns("LP_mode_value", << V, ell, em >>,
                  NoArray(LP_mode_value(V, ell, em)))

Call_LP_mode_values ==
  /\ op = "idle"
  /\ \E V \in VGrid \cup {VLarge, VCap}, ell \in Ells :
       /\ V \in {VLarge, VCap} => ell = 0
       /\ Returns("LP_mode_values", << V, ell >>,
                  ArrayResult(LP_mode_values(V, ell)))

(***************************************************************************)
(* Mode numbers given in fixed point, so that they can be fractional:      *)
(* LP_mode_value (cylinder_step.py) and cutoff_wavelength (basics.py).  A  *)
(* whole number is a Python int, a fractional one a float.                 *)
(***************************************************************************)
\* floor(x) == x
IsWhole(x) == x % One = 0

\* scipy's jn_zeros raises ValueError unless its two arguments are whole
ZerosAccept(order, nt) == IsWhole(order) /\ IsWhole(nt)

\* _LP_mode_value with a fractional ell or em: lines 159-166, then
\* jn_zeros(ell, em) of line 171, which is outside the try statement
FractionalCall(V, ell, em) ==
  IF RejectV(V) THEN Outcome(V, ell, em, NoMode, FALSE, "no", 0, 0)
  ELSE IF ZerosAccept(Abs(ell), em)
  THEN _LP_mode_value(V, ell \div One, em \div One)
  ELSE Outcome(V, ell, em, PyRaise, TRUE, "no", 0, 0)

\* LP_mode_value(V, ell, em) with ell and em in fixed point
LP_mode_value_float(V, ell, em) ==
  IF em < One THEN [ret |-> PyRaise, calls |-> << >>]
  ELSE IF IsWhole(ell) /\ IsWhole(em)
  THEN LP_mode_value(V, ell \div One, em \div One)
  ELSE ScalarCall(FractionalCall(V, ell, em))

\* np.inf
PosInf == 2 * Big

\* np.isfinite(q)
IsFinite(q) == Abs(q) <= Big

\* Vc of lines 111-113
CutoffV(ell, q) ==
  IF IsFinite(q)
  THEN Mul(jn_zeros(Trunc(ell), 1)[1], Sqrt(One + Div(2 * One, q)))
  ELSE jn_zeros(Trunc(ell), 1)[1]

cutoff_wavelength(a, NA, ell, q) ==
  PyFloat(Div(Mul(Mul(2 * Pi, a), NA), CutoffV(ell, q)))

(***************************************************************************)
(* cylinder_step.py: LP_mode_value with a sequence for one argument.  A    *)
(* sequence is [container, dtype, items]: a Python list or a numpy array,  *)
(* of Python ints (dtype "int") or floats.                                 *)
(***************************************************************************)
\* the entry of b after b[i] = r, b = np.zeros_like(sequence): an integer
\* array truncates a float and refuses None (TypeError), a float array
\* turns None into nan
Store(dtype, r) ==
  IF r.kind = "raise" THEN PyRaise
  ELSE IF r.kind = "None" THEN (IF dtype = "int" THEN PyRaise ELSE PyNaN)
  ELSE IF dtype = "int" THEN [kind |-> "int", v |-> Trunc(r.v)]
  ELSE r

\* the elements at which the loop ends by an exception
Breaks(dtype, rs) ==
  { i \in 1..Len(rs) : Store(dtype, rs[i].ret).kind = "raise" }

\* one of the loops of lines 214-230, rs being what the calls for the
\* elements do
SeqLoop(dtype, rs) ==
  IF Breaks(dtype, rs) = {}
  THEN [ret |-> PyArray,
        arr |-> [i \in 1..Len(rs) |-> Store(dtype, rs[i].ret)],
        calls |-> [i \in 1..Len(rs) |-> rs[i].calls[1]]]
  ELSE [ret |-> PyRaise, arr |-> << >>,
        calls |-> [i \in 1..(CHOOSE i \in Breaks(dtype, rs) :
                               \A j \in Breaks(dtype, rs) : i <= j)
                     |-> rs[i].calls[1]]]

SeqRaise == [ret |-> PyRaise, arr |-> << >>, calls |-> << >>]

\* LP_mode_value(V, ell, em) with V a sequence
LP_mode_value_V(V, ell, em) ==
  IF em < 1 THEN SeqRaise
  ELSE SeqLoop(V.dtype,
               [i \in 1..Len(V.items) |-> LP_mode_value(V.items[i], ell, em)])

\* ... with ell a sequence
LP_mode_value_ell(V, ell, em) ==
  IF em < 1 THEN SeqRaise
  ELSE SeqLoop(ell.dtype,
               [i \in 1..Len(ell.items) |-> LP_mode_value(V, ell.items[i], em)])

\* ... with em a sequence: em < 1 of line 208 is a TypeError for a list,
\* and an array whose truth value is a ValueError unless it has one entry
LP_mode_value_em(V, ell, em) ==
  IF em.container = "list" \/ Len(em.items) # 1 THEN SeqRaise
  ELSE IF em.items[1] < 1 THEN SeqRaise
  ELSE SeqLoop(em.dtype,
               [i \in 1..Len(em.items) |-> LP_mode_value(V, ell, em.items[i])])

PyList(dtype, items) ==
  [container |-> "list", dtype |-> dtype, items |-> items]

NpArray(dtype, items) ==
  [container |-> "ndarray", dtype |-> dtype, items |-> items]

\* a number where a sequence may stand
PyScalar(x) == [container |-> "scalar", dtype |-> "int", items |-> << x >>]

\* np.isscalar
IsScalar(a) == a.container = "scalar"

\* an exception of class exc raised at a line of cylinder_step.py
RaiseAt(exc, line) == [kind |-> "raise", v |-> 0, exc |-> exc, line |-> line]

Raises(exc, line) == [ret |-> RaiseAt(exc, line), arr |-> << >>, calls |-> << >>]

\* "if em < 1" of line 208: "no" when the test is false; em < 1 raises
\* TypeError for a list, and bool() of an array raises ValueError unless
\* the array has one entry
EmBelowOne(em) ==
  IF em.container = "list" THEN "TypeError"
  ELSE IF Len(em.items) # 1 THEN "ValueError"
  ELSE IF em.items[1] < 1 THEN "yes"
  ELSE "no"

\* the sum of line 211
ScalarCount(V, ell, em) ==
  (IF IsScalar(V) THEN 1 ELSE 0) + (IF IsScalar(ell) THEN 1 ELSE 0)
    + (IF IsScalar(em) THEN 1 ELSE 0)

\* the first sequence among V, ell and em, in the order of the tests of
\* lines 214, 220 and 226
FirstSeq(V, ell, em) ==
  IF ~IsScalar(V) THEN V ELSE IF ~IsScalar(ell) THEN ell ELSE em

\* the i-th item of a where a is the sequence looped over, else a itself
ItemAt(a, i) == IF IsScalar(a) THEN a.items[1] ELSE a.items[i]

\* lines 214-232, rs being what the calls of LP_mode_value for the items
\* do (one call when all three are numbers)
OneSequence(V, ell, em, rs) ==
  IF ScalarCount(V, ell, em) = 3 THEN NoArray(rs[1])
  ELSE SeqLoop(FirstSeq(V, ell, em).dtype, rs)

\* lines 214-232: at most one of V, ell and em is a sequence
LP_mode_value_one(V, ell, em) ==
  OneSequence(V, ell, em,
              [i \in 1..Len(FirstSeq(V, ell, em).items) |->
                 LP_mode_value(ItemAt(V, i), ItemAt(ell, i), ItemAt(em, i))])

\* LP_mode_value(V, ell, em), each argument a number or a sequence
LP_mode_value_any(V, ell, em) ==
  IF EmBelowOne(em) \in {"TypeError", "ValueError"}
  THEN Raises(EmBelowOne(em), 208)
  ELSE IF EmBelowOne(em) = "yes" THEN Raises("ValueError", 209)
  ELSE IF ScalarCount(V, ell, em) < 2 THEN Raises("ValueError", 212)
  ELSE LP_mode_value_one(V, ell, em)

\* the arguments called with where each may be a sequence
AnyVs ==
  { PyScalar(2 * One), PyList("float", << 2 * One, 5 * One >>),
    NpArray("float", << 2 * One >>) }

AnyElls == { PyScalar(0), PyList("int", << 0, 1 >>), NpArray("int", << 1, 0 >>) }

AnyEms ==
  { PyScalar(1), PyScalar(0), PyList("int", << 1, 2 >>),
    NpArray("int", << 1, 2 >>), NpArray("int", << 1 >>) }

Call_LP_mode_value_any ==
  /\ op = "idle"
  /\ \E V \in AnyVs, ell \in AnyElls, em \in AnyEms :
       Returns("LP_mode_value_any", << V, ell, em >>,
               LP_mode_value_any(V, ell, em))

\* the scalar V-parameters called with beside a sequence
FewVs == { 2 * One, 5 * One }

\* sequences of V, of ell and of em called with
SeqVs ==
  { PyList("float", << 2 * One, 5 * One >>),
    NpArray("float", << -VStep, 2 * One >>),
    PyList("int", << 2 * One, 5 * One >>),
    NpArray("int", << 0, 5 * One >>) }

SeqElls ==
  { PyList("int", << 0, 1 >>), NpArray("int", << 1, 0 >>),
    NpArray("int", << 0 >>) }

SeqEms ==
  { PyList("int", << 1, 2 >>), NpArray("int", << 1, 2 >>),
    NpArray("int", << 1 >>), NpArray("int", << 0 >>) }

\* V-parameters the functions that use LP_mode_value are called with
UserVs == VGrid \cup {VLarge}

\* positions r/a called with
Radii == { 0, One }

Call_LP_mode_value_V ==
  /\ op = "idle"
  /\ \E V \in SeqVs, ell \in 0..1, em \in 0..1 :
       Returns("LP_mode_value_V", << V, ell, em >>,
               LP_mode_value_V(V, ell, em))

Call_LP_mode_value_ell ==
  /\ op = "idle"
  /\ \E V \in FewVs, ell \in SeqElls, em \in 0..1 :
       Returns("LP_mode_value_ell", << V, ell, em >>,
               LP_mode_value_ell(V, ell, em))

Call_LP_mode_value_em ==
  /\ op = "idle"
  /\ \E V \in FewVs, ell \in 0..1, em \in SeqEms :
       Returns("LP_mode_value_em", << V, ell, em >>,
               LP_mode_value_em(V, ell, em))

Call_V_d2bV_by_V ==
  /\ op = "idle"
  /\ \E V \in UserVs, ell \in 0..1 :
       Returns("V_d2bV_by_V", << V, ell >>, NoArray(V_d2bV_by_V(V, ell)))

Call_PetermannW ==
  /\ op = "idle"
  /\ \E V \in UserVs :
       Returns("PetermannW", << V >>, NoArray(PetermannW(V)))

Call_gaussian_envelope_Omega ==
  /\ op = "idle"
  /\ \E V \in UserVs :
       Returns("gaussian_envelope_Omega", << V >>,
               NoArray(gaussian_envelope_Omega(V)))

Call_gaussian_radial_irradiance ==
  /\ op = "idle"
  /\ \E V \in UserVs, r_over_a \in Radii :
       Returns("gaussian_radial_irradiance", << V, r_over_a >>,
               NoArray(gaussian_radial_irradiance(V, r_over_a)))

\* fibres: core and cladding index, core radius, wavelength, profile power
\* (Big for the default 1e20)
CoreIndices == { (145 * One) \div 100 }
CladIndices == { (144 * One) \div 100, (1445 * One) \div 1000 }
CoreRadii == { 4 * One }
Wavelengths == { (13 * One) \div 10, (155 * One) \div 100 }
Powers == { 2 * One, Big }

Call_Waveguide_Dispersion ==
  /\ op = "idle"
  /\ \E n1 \in CoreIndices, n2 \in CladIndices, a \in CoreRadii,
        lambda0 \in Wavelengths, q \in Powers :
       Returns("Waveguide_Dispersion", << n1, n2, a, lambda0, q >>,
               NoArray(Waveguide_Dispersion(n1, n2, a, lambda0, q)))

\* mode numbers in fixed point
FloatElls == { -One \div 2, 0, One \div 2, One, (3 * One) \div 2 }
FloatEms == { One \div 2, One, (3 * One) \div 2, 2 * One }

\* numerical apertures called with
Apertures == { One \div 10, (22 * One) \div 100 }

Call_LP_mode_value_float ==
  /\ op = "idle"
  /\ \E V \in { 0 } \cup FewVs, ell \in FloatElls, em \in FloatEms :
       Returns("LP_mode_value_float", << V, ell, em >>,
               NoArray(LP_mode_value_float(V, ell, em)))

Call_cutoff_wavelength ==
  /\ op = "idle"
  /\ \E a \in CoreRadii, NA \in Apertures, ell \in FloatElls,
        q \in { 2 * One, PosInf } :
       Returns("cutoff_wavelength", << a, NA, ell, q >>,
               [ret |-> cutoff_wavelength(a, NA, ell, q),
                arr |-> << >>, calls |-> << >>])

\* names looked up
QueryNames ==
  { << "S", "i", "O", "2" >>, << "s", "i", "o", "2" >>, << "g", "e", "o" >>,
    << "P", "2", "O", "2" >>, << "b", "k", "7" >>, << "S", "F", "5" >>,
    << "s", "f", "5", "7" >>, << "S", "i", "l", "i", "c", "a" >>,
    << "O", "R", "D", "I", "N", "A", "R", "Y", ")" >>, << "m", "g", "F" >>,
    << "z", "b", "l", "a", "n" >>, << "k", "1", "0" >>, << "f" >>,
    << "x", "y", "z" >>, << "q", "u", "a", "r", "t", "z" >>, << >> }

\* indices of glasses called with
GlassIndices == { -129, -128, -1, 0, 1, 13, 14, 127, 128 }

Call_find_glass ==
  /\ op = "idle"
  /\ \E name \in QueryNames :
       Returns("find_glass", << name >>,
               [ret |-> find_glass(name), arr |-> << >>, calls |-> << >>])

Call_glass_name ==
  /\ op = "idle"
  /\ \E i \in GlassIndices :
       Returns("glass_name", << i >>,
               [ret |-> glass_name(i), arr |-> << >>, calls |-> << >>])

\* molar fractions of GeO2 called with
Fractions == { 0, One \div 10, One }

\* the glasses whose coefficients the caller passes on
CoefIndices == { 0, 1, 13 }

Call_glass ==
  /\ op = "idle"
  /\ \E i \in GlassIndices : Returns("glass", << i >>, glass(i))

Call_doped_glass ==
  /\ op = "idle"
  /\ \E x \in Fractions : Returns("doped_glass", << x >>, doped_glass(x))

\* a function of the coefficients and the wavelength that returns a float
FloatResult(x) == [ret |-> PyFloat(x), arr |-> << >>, calls |-> << >>]

Call_n ==
  /\ op = "idle"
  /\ \E i \in CoefIndices, lambda0 \in Wavelengths :
       Returns("n", << i, lambda0 >>, FloatResult(n(glass(i).arr, lambda0)))

Call_dn ==
  /\ op = "idle"
  /\ \E i \in CoefIndices, lambda0 \in Wavelengths :
       Returns("dn", << i, lambda0 >>, FloatResult(dn(glass(i).arr, lambda0)))

Call_d2n ==
  /\ op = "idle"
  /\ \E i \in CoefIndices, lambda0 \in Wavelengths :
       Returns("d2n", << i, lambda0 >>, FloatResult(d2n(glass(i).arr, lambda0)))

Call_n_group ==
  /\ op = "idle"
  /\ \E i \in CoefIndices, lambda0 \in Wavelengths :
       Returns("n_group", << i, lambda0 >>,
               FloatResult(n_group(glass(i).arr, lambda0)))

Call_Material_Dispersion ==
  /\ op = "idle"
  /\ \E i \in CoefIndices, lambda0 \in Wavelengths :
       Returns("Material_Dispersion", << i, lambda0 >>,
               FloatResult(Material_Dispersion(glass(i).arr, lambda0)))

\* relative index differences called with
Deltas == { (5 * One) \div 1000 }

Call_Waveguide_Dispersion_Delta ==
  /\ op = "idle"
  /\ \E i \in CoefIndices, Delta \in Deltas, a \in CoreRadii,
        lambda0 \in Wavelengths, q \in Powers, approx \in BOOLEAN :
       Returns("Waveguide_Dispersion_Delta",
               << i, Delta, a, lambda0, q, approx >>,
               NoArray(Waveguide_Dispersion_Delta(glass(i).arr, Delta, a,
                                                  lambda0, q, approx)))

Call_Total_Dispersion ==
  /\ op = "idle"
  /\ \E i \in CoefIndices, Delta \in Deltas, a \in CoreRadii,
        lambda0 \in Wavelengths, q \in Powers, approx \in BOOLEAN :
       Returns("Total_Dispersion", << i, Delta, a, lambda0, q, approx >>,
               NoArray(Total_Dispersion(glass(i).arr, Delta, a, lambda0, q,
                                        approx)))

Call_TE_crossing ==
  /\ op = "idle"
  /\ \E V \in PlanarVs, mode \in Modes :
       Returns("TE_crossing", << V, mode >>,
               NoArray(ScalarCall(TE_crossing(V, mode))))

Call_TM_crossing ==
  /\ op = "idle"
  /\ \E V \in PlanarVs, n1 \in Indices, n2 \in Indices, mode \in Modes :
       Returns("TM_crossing", << V, n1, n2, mode >>,
               NoArray(ScalarCall(TM_crossing(V, n1, n2, mode))))

Call_TE_crossings ==
  /\ op = "idle"
  /\ \E V \in PlanarVs :
       Returns("TE_crossings", << V >>, TE_crossings(V))

Call_TM_crossings ==
  /\ op = "idle"
  /\ \E V \in PlanarVs, n1 \in Indices, n2 \in Indices :
       Returns("TM_crossings", << V, n1, n2 >>, TM_crossings(V, n1, n2))

\* b[i] of lines 386-389 and 409-412 before it is stored, xi == 0 being
\* true of the int 0 and of the float 0.0
PropEntry(VV, xi) ==
  IF xi = 0 THEN PyFloat(0)
  ELSE PyFloat(One - Square(Div(2 * xi, VV)))

\* b = np.empty_like(V) and the loop over V, cs[i] being what the crossing
\* call for V[i] does
PropLoop(V, cs) ==
  IF Raised(cs) # {}
  THEN [ret |-> PyRaise, arr |-> << >>, calls |-> SubSeq(cs, 1, LoopLen(cs))]
  ELSE [ret |-> PyArray,
        arr |-> [i \in 1..Len(cs) |->
                   Store(V.dtype, PropEntry(V.items[i], cs[i].ret.v))],
        calls |-> cs]

TE_propagation_constant(V, mode) ==
  PropLoop(V, [i \in 1..Len(V.items) |-> TE_crossing(V.items[i], mode)])

TM_propagation_constant(V, n1, n2, mode) ==
  PropLoop(V, [i \in 1..Len(V.items) |-> TM_crossing(V.items[i], n1, n2, mode)])

\* V-parameters, thicknesses and positions the fields are asked for
FieldVs == { 2 * One, 4 * One, 7 * One, 10 * One, VEdge }
Thicknesses == { One, 2 * One }

\* positions inside, on and outside the boundary of a slab of thickness d
Positions(d) == << -d, -(d \div 2), -(d \div 4), 0, d \div 4, d \div 2, d >>

\* sequences of V the propagation constants are asked for
PropVs ==
  { NpArray("float", << VStep, 2 * One, 4 * One, 7 * One >>),
    PyList("float", << 0, VEdge >>),
    NpArray("int", << 2 * One, 7 * One >>) }

Call_TE_field ==
  /\ op = "idle"
  /\ \E V \in FieldVs, d \in Thicknesses, mode \in Modes :
       Returns("TE_field", << V, d, Positions(d), mode >>,
               TE_field(V, d, Positions(d), mode))

Call_TM_field ==
  /\ op = "idle"
  /\ \E V \in FieldVs, n1 \in Indices, n2 \in Indices,
        d \in Thicknesses, mode \in Modes :
       Returns("TM_field", << V, n1, n2, d, Positions(d), mode >>,
               TM_field(V, n1, n2, d, Positions(d), mode))

Call_TE_propagation_constant ==
  /\ op = "idle"
  /\ \E V \in PropVs, mode \in Modes :
       Returns("TE_propagation_constant", << V, mode >>,
               TE_propagation_constant(V, mode))

Call_TM_propagation_constant ==
  /\ op = "idle"
  /\ \E V \in PropVs, n1 \in Indices, n2 \in Indices, mode \in Modes :
       Returns("TM_propagation_constant", << V, n1, n2, mode >>,
               TM_propagation_constant(V, n1, n2, mode))

Call_parabolic_crossing ==
  /\ op = "idle"
  /\ \E V \in PlanarVs, mode \in Modes :
       Returns("parabolic_crossing", << V, mode >>,
               NoArray(ScalarCall(parabolic_crossing(V, mode))))

Call_parabolic_crossings ==
  /\ op = "idle"
  /\ \E V \in PlanarVs :
       Returns("parabolic_crossings", << V >>, parabolic_crossings(V))

\* back in the caller, nothing of the call is left
Idle ==
  /\ op' = "idle"
  /\ args' = << >>
  /\ ret' = PyNone
  /\ arr' = << >>
  /\ calls' = << >>
  /\ UNCHANGED << _GLASS, ALL_GLASS_NAMES >>

\* one more call, different from the remembered one, is over
Later(e) ==
  IF e.op = "none" \/ (e.op = op /\ e.args = args) THEN e
  ELSE [e EXCEPT !.since = Min(@ + 1, MaxSince)]

Return ==
  /\ op # "idle"
  /\ Idle
  /\ earlier' = Later(earlier)

\* a program that solves for modes: cylinder_step.py and planar_step.py
Next ==
  \/ Call_LP_mode_value
  \/ Call_LP_mode_values
  \/ Call_TE_crossing
  \/ Call_TM_crossing
  \/ Call_TE_crossings
  \/ Call_TM_crossings
  \/ Return

Spec == Init /\ [][Next]_vars

\* a program that passes sequences and floats where the mode solver's
\* documentation names numbers
NextLoose ==
  \/ Call_LP_mode_value_V
  \/ Call_LP_mode_value_ell
  \/ Call_LP_mode_value_em
  \/ Call_LP_mode_value_any
  \/ Call_LP_mode_value_float
  \/ Call_cutoff_wavelength
  \/ Return

SpecLoose == Init /\ [][NextLoose]_vars

\* a program that asks for the fields and the propagation constants of
\* the modes of a slab
NextSlab ==
  \/ Call_TE_field
  \/ Call_TM_field
  \/ Call_TE_propagation_constant
  \/ Call_TM_propagation_constant
  \/ Return

SpecSlab == Init /\ [][NextSlab]_vars

\* a program that solves a slab with the step-index and with the
\* parabolic solver
NextParabolic ==
  \/ Call_parabolic_crossing
  \/ Call_parabolic_crossings
  \/ Call_TE_crossing
  \/ Call_TE_crossings
  \/ Return

SpecParabolic == Init /\ [][NextParabolic]_vars

\* a program that asks for the properties of a fiber's fundamental mode
NextFiber ==
  \/ Call_V_d2bV_by_V
  \/ Call_PetermannW
  \/ Call_gaussian_envelope_Omega
  \/ Call_gaussian_radial_irradiance
  \/ Return

SpecFiber == Init /\ [][NextFiber]_vars

\* a program that works with glasses: refraction.py and dispersion.py
NextGlass ==
  \/ Call_find_glass
  \/ Call_glass_name
  \/ Call_glass
  \/ Call_doped_glass
  \/ Call_n
  \/ Call_dn
  \/ Call_d2n
  \/ Call_n_group
  \/ Call_Material_Dispersion
  \/ Call_Waveguide_Dispersion
  \/ Call_Waveguide_Dispersion_Delta
  \/ Call_Total_Dispersion
  \/ Return

SpecGlass == Init /\ [][NextGlass]_vars

(***************************************************************************)
(* The caller that repeats calls: it may note a call and its result when   *)
(* the call returns, makes other calls, and makes the noted call again.    *)
(***************************************************************************)
RepeatVs == { 2 * One, 5 * One }
RepeatElls == 0..1
RepeatEms == 1..2
RepeatModes == 0..1

Repeat_LP_mode_value ==
  /\ op = "idle"
  /\ \E V \in RepeatVs, ell \in RepeatElls, em \in RepeatEms :
       Returns("LP_mode_value", << V, ell, em >>,
               NoArray(LP_mode_value(V, ell, em)))

Repeat_LP_mode_values ==
  /\ op = "idle"
  /\ \E V \in RepeatVs, ell \in RepeatElls :
       Returns("LP_mode_values", << V, ell >>,
               ArrayResult(LP_mode_values(V, ell)))

Repeat_TE_crossing ==
  /\ op = "idle"
  /\ \E V \in RepeatVs, mode \in RepeatModes :
       Returns("TE_crossing", << V, mode >>,
               NoArray(ScalarCall(TE_crossing(V, mode))))

Repeat_TM_crossing ==
  /\ op = "idle"
  /\ \E V \in RepeatVs, mode \in RepeatModes :
       Returns("TM_crossing", << V, (3 * One) \div 2, One, mode >>,
               NoArray(ScalarCall(TM_crossing(V, (3 * One) \div 2, One, mode))))

Repeat_TE_crossings ==
  /\ op = "idle"
  /\ \E V \in RepeatVs :
       Returns("TE_crossings", << V >>, TE_crossings(V))

Repeat_TM_crossings ==
  /\ op = "idle"
  /\ \E V \in RepeatVs :
       Returns("TM_crossings", << V, (3 * One) \div 2, One >>,
               TM_crossings(V, (3 * One) \div 2, One))

\* the caller notes the call that returns
Remember ==
  /\ op # "idle"
  /\ Idle
  /\ earlier' = [op |-> op, args |-> args, ret |-> ret, arr |-> arr, since |-> 0]

NextRepeat ==
  \/ Repeat_LP_mode_value
  \/ Repeat_LP_mode_values
  \/ Repeat_TE_crossing
  \/ Repeat_TM_crossing
  \/ Repeat_TE_crossings
  \/ Repeat_TM_crossings
  \/ Return
  \/ Remember

SpecRepeat == Init /\ [][NextRepeat]_vars

(***************************************************************************)
(* Properties of the cylindrical solver.                                   *)
(***************************************************************************)
\* the arguments of the call in progress
ArgV == args[1]
ArgEll == args[2]
ArgEm == args[3]

InLPValue == op = "LP_mode_value"
InLPValues == op = "LP_mode_values"

\* C1: whenever LP_mode_value(V, ell, em) returns a value, that value b
\* satisfies 0 < b < 1 strictly.
C1_RangeInvariant ==
  (InLPValue /\ ret.kind = "float") => (0 < ret.v /\ ret.v < One)

C1_ValueReturned ==
  InLPValue /\ ArgV > 0 /\ ArgEm >= 1 /\ ArgEll >= 0 /\ ret.kind = "float"

\* C2: LP_mode_value(V, 0, 1) returns a value, never no-mode, for every
\* V > 0, very small and very large V included.
C2_FundamentalAlwaysGuided ==
  (InLPValue /\ ArgV > 0 /\ ArgEll = 0 /\ ArgEm = 1) => ret.kind = "float"

\* the (em-1)-th positive zero of J_ell
PrevZero(ell, em) == JZeroTable[Abs(ell) + 1][em - 1]

\* a distance in V far larger than the solver's epsilon
CutoffTol == One \div 100

\* C3 as stated: for em >= 2, LP_mode_value(V, ell, em) is no-mode for V
\* below the (em-1)-th zero of J_ell and a value for V above it.
C3_CutoffAtZero ==
  (InLPValue /\ ArgEm >= 2 /\ ArgV > 0) =>
    /\ ArgV < PrevZero(ArgEll, ArgEm) - CutoffTol => ret.kind = "None"
    /\ ArgV > PrevZero(ArgEll, ArgEm) + CutoffTol => ret.kind = "float"

\* C3 amended: for em >= 2, LP_mode_value(V, ell, em) is no-mode, through
\* the hi < lo guard, for every V > 0 at or below the (em-1)-th zero of
\* J_ell; a value is returned only for V above that zero.
C3_NoModeUpToZero ==
  (InLPValue /\ ArgEm >= 2 /\ ArgV > 0) =>
    /\ ArgV <= PrevZero(ArgEll, ArgEm) =>
         (ret.kind = "None" /\ calls[1].brent = "no")
    /\ ret.kind = "float" => ArgV > PrevZero(ArgEll, ArgEm)

C3_HigherOrderGuided ==
  InLPValue /\ ArgEm >= 2 /\ ret.kind = "float"

\* C4: LP_mode_value(V, -ell, em) returns the same result as
\* LP_mode_value(V, ell, em), for every V, ell and em >= 1.
C4_SignOfEll ==
  (InLPValue /\ ArgEm >= 1) =>
    ret = LP_mode_value(ArgV, -ArgEll, ArgEm).ret

C4_NegativeEllSolved ==
  InLPValue /\ ArgEll < 0 /\ ArgEm >= 1 /\ ret.kind = "float"

\* C5: the public LP_mode_value(V, ell, em) with em <= 0 returns no-mode
\* and does not raise.
C5_NonPositiveEmIsNoMode ==
  (InLPValue /\ ArgEm <= 0) => ret.kind = "None"

\* C6: for V <= 0 and em >= 1, LP_mode_value(V, ell, em) returns no-mode at
\* once: no Bessel zeros are computed, the root-finder is not invoked and
\* nothing is raised.
C6_NonPositiveVRejected ==
  (InLPValue /\ ArgV <= 0 /\ ArgEm >= 1) =>
    /\ ret.kind = "None"
    /\ Len(calls) = 1
    /\ ~calls[1].zeros
    /\ calls[1].brent = "no"

C6_NonPositiveVCalled ==
  InLPValue /\ ArgV <= 0 /\ ArgEm >= 1 /\ ArgEll # 0

\* C7: when brentq fails because the eigenvalue function has the same sign
\* at both ends of the bracket, LP_mode_value returns no-mode and no
\* exception reaches the caller.
C7_SameSignIsNoMode ==
  (InLPValue /\ calls # << >> /\ calls[1].brent = "signerr") =>
    ret.kind = "None"

C7_SameSignHappened ==
  InLPValue /\ calls # << >> /\ calls[1].brent = "signerr"

\* jv(ell, U) as the quotient of _LHS_eqn_8_40 takes it, z = NearZero(|ell|, U)
JDenominator(ell, U, z) ==
  IF z # 0 THEN JTaylor(Abs(ell), U, z) ELSE LamSeries(Abs(ell), U)

\* at b the eigenvalue function divides by jv(ell, U) = 0
JZeroAt(b, V, ell, U) ==
  b <= One /\ JDenominator(ell, U, NearZero(Abs(ell), U)) = 0

\* at b the eigenvalue function divides by kn(ell, W) = 0
KZeroAt(b, V) == b >= 0 /\ Mul(V, Sqrt(b)) >= KUnderflow

ZeroDivisionAt(b, V, ell) ==
  \/ JZeroAt(b, V, AbsEll(ell), Mul(V, Sqrt(Max(0, One - b))))
  \/ KZeroAt(b, V)

\* the call o invoked brentq, which evaluated the eigenvalue function at a
\* bracket end where a Bessel value in a denominator is exactly zero
DividedByZero(o) ==
  /\ o.brent # "no"
  /\ ZeroDivisionAt(o.lo, o.V, o.ell) \/ ZeroDivisionAt(o.hi, o.V, o.ell)

\* C8: if the eigenvalue function divides by a Bessel value that is exactly
\* zero during LP_mode_value, the call ends with no-mode; nothing is raised.
C8_ZeroDivisionIsNoMode ==
  (InLPValue /\ calls # << >> /\ DividedByZero(calls[1])) =>
    (ret.kind = "None" /\ calls[1].ret.kind = "None")

C8_ZeroDivisionHappened ==
  InLPValue /\ calls # << >> /\ DividedByZero(calls[1])

C9_SeveralValues ==
  InLPValues /\ ret.kind = "array" /\ Len(arr) >= 3 /\ Len(calls) = Len(arr) + 1

C9_NoValues ==
  InLPValues /\ ret.kind = "array" /\ arr = << >>

(***************************************************************************)
(* Properties of the planar solver.                                        *)
(***************************************************************************)
InCrossings == op \in {"TE_crossings", "TM_crossings"}

\* C10 as stated: for V > 0, TE_crossings(V) and TM_crossings(V, n1, n2)
\* return exactly floor(V / (pi/2)) + 1 entries.
C10_CountPerHalfPi ==
  (InCrossings /\ args[1] > 0 /\ ret.kind = "array") =>
    /\ (Len(arr) - 1) * Pi <= 2 * args[1]
    /\ 2 * args[1] < Len(arr) * Pi

\* C10 amended: for V > 0, TE_crossings(V) and TM_crossings(V, n1, n2)
\* return an array of exactly floor(V / pi) + 1 entries.
C10_CountPerPi ==
  (InCrossings /\ args[1] > 0) =>
    /\ ret.kind = "array"
    /\ (Len(arr) - 1) * Pi <= args[1]
    /\ args[1] < Len(arr) * Pi

C10_SeveralCrossings ==
  InCrossings /\ args[1] > 0 /\ ret.kind = "array" /\ Len(arr) >= 3

\* a residual far larger than the solver's tolerance
RootTol == One \div 1000

\* xi satisfies the TE eigenvalue equation of the mode to within RootTol
IsTERoot(xi, V, mode) ==
  /\ _TE_mode(xi, V, mode).kind = "float"
  /\ Abs(_TE_mode(xi, V, mode).v) <= RootTol

\* C11: for V > 0, every entry TE_crossings(V)[mode] is a root of the
\* eigenvalue equation of the parity of mode, to within the solver's
\* tolerance, and no entry is the 0 returned where no mode exists.
C11_EveryEntryIsRoot ==
  (op = "TE_crossings" /\ args[1] > 0 /\ ret.kind = "array") =>
    \A i \in 1..Len(arr) :
      /\ arr[i] # 0
      /\ IsTERoot(arr[i], args[1], i - 1)

InCrossing == op \in {"TE_crossing", "TM_crossing"}

\* the mode argument of TE_crossing(V, mode) or TM_crossing(V, n1, n2, mode)
ArgMode == args[Len(args)]

\* the lower bracket bound epsilon + mode*pi/2 exceeds V/2
LoAboveHalfV == abit + (ArgMode * Pi) \div 2 > args[1] \div 2

\* C12: TE_crossing(V, mode) and TM_crossing(V, n1, n2, mode) with
\* mode >= 0 return 0, without invoking the root-finder and without
\* raising, whenever epsilon + mode*pi/2 exceeds V/2; this is so for every
\* V <= 0.
C12_NoBracketIsZero ==
  (InCrossing /\ ArgMode >= 0) =>
    /\ LoAboveHalfV =>
         (ret = [kind |-> "int", v |-> 0] /\ calls[1].brent = "no")
    /\ args[1] <= 0 => LoAboveHalfV

C12_NoBracketForPositiveV ==
  op = "TM_crossing" /\ ArgMode >= 1 /\ args[1] > 0 /\ LoAboveHalfV

\* C13: when brentq, invoked by TE_crossing or TM_crossing, fails because
\* the eigenvalue function has the same sign at both ends of the bracket,
\* the call returns 0 and no exception reaches the caller.
C13_SameSignIsZero ==
  (InCrossing /\ calls[1].brent = "signerr") =>
    ret = [kind |-> "int", v |-> 0]

C13_SameSignHappened ==
  op = "TE_crossing" /\ calls[1].brent = "signerr"

(***************************************************************************)
(* Properties of repeated calls.                                           *)
(***************************************************************************)
Repeated == op # "idle" /\ earlier.op = op /\ earlier.args = args

InUser ==
  op \in {"V_d2bV_by_V", "PetermannW", "gaussian_envelope_Omega",
          "gaussian_radial_irradiance"}

SolverSaidNoMode == Len(calls) = 1 /\ calls[1].ret.kind = "None"

\* C15: when LP_mode_value reports no mode, each function of the library
\* that uses it returns 0 or NaN, and none raises.
C15_NoModeIsNormalFlow ==
  (InUser /\ SolverSaidNoMode) =>
    (ret = [kind |-> "int", v |-> 0] \/ ret.kind = "nan")

(***************************************************************************)
(* Properties of the dispersion functions.                                 *)
(***************************************************************************)
\* C16: Waveguide_Dispersion completes for valid inputs, calling the
\* solver for the mode (0, 1), and returns the product of line 62;
\* Waveguide_Dispersion_Delta and Total_Dispersion complete through it.
C16_WaveguideDispersionCompletes ==
  (\/ op = "Waveguide_Dispersion"
   \/ op \in {"Waveguide_Dispersion_Delta", "Total_Dispersion"} /\ ~args[6]) =>
    /\ ret.kind = "float"
    /\ Len(calls) = 1
    /\ calls[1].ell = 0 /\ calls[1].em = 1

(***************************************************************************)
(* Properties of LP_mode_value with a sequence.                            *)
(***************************************************************************)
InSeqCall ==
  op \in {"LP_mode_value_V", "LP_mode_value_ell", "LP_mode_value_em"}

\* the sequence among the arguments
ArgSeq ==
  CASE op = "LP_mode_value_V" -> args[1]
    [] op = "LP_mode_value_ell" -> args[2]
    [] op = "LP_mode_value_em" -> args[3]

\* the entry e of the array is what the scalar solver returned, r
SameAsScalar(e, r) ==
  \/ r.kind = "None" /\ e.kind \in {"None", "nan"}
  \/ r.kind = "float" /\ e.kind = "float" /\ e.v = r.v
  \/ r.kind = "float" /\ e.kind = "int" /\ e.v * One = r.v

\* C17: LP_mode_value with one sequence argument (and every em at least 1)
\* returns a sequence of the same length whose i-th element is the scalar
\* solver's result for the i-th element, for integers as well as floats.
C17_SequenceIsElementwise ==
  (InSeqCall /\ (IF op = "LP_mode_value_em"
                 THEN \A i \in 1..Len(ArgSeq.items) : ArgSeq.items[i] >= 1
                 ELSE args[3] >= 1)) =>
    /\ ret.kind = "array"
    /\ Len(arr) = Len(ArgSeq.items)
    /\ Len(calls) = Len(arr)
    /\ \A i \in 1..Len(arr) : SameAsScalar(arr[i], calls[i].ret)

\* how many of the arguments of the call are sequences
SequenceCount == 3 - ScalarCount(args[1], args[2], args[3])

\* the ValueError of line 212
OnlyOneError ==
  /\ ret.kind = "raise"
  /\ "line" \in DOMAIN ret
  /\ ret.exc = "ValueError" /\ ret.line = 212

\* C23: LP_mode_value raises ValueError, and computes nothing, whenever
\* two or more of V, ell and em are sequences; with at most one sequence
\* and every em at least 1 it does not raise that error.
C23_TwoSequencesValueError ==
  op = "LP_mode_value_any" =>
    /\ SequenceCount >= 2 =>
         /\ ret.kind = "raise"
         /\ "exc" \in DOMAIN ret
         /\ ret.exc = "ValueError"
         /\ calls = << >>
    /\ (SequenceCount <= 1 /\ \A i \in 1..Len(args[3].items) :
                                 args[3].items[i] >= 1) =>
         ~OnlyOneError

(***************************************************************************)
(* Properties of the glass table.                                          *)
(***************************************************************************)
\* str.lower()
Lower(s) ==
  [i \in 1..Len(s) |->
     IF PlaceIn(UpperCase, s[i]) = 0 THEN s[i]
     ELSE LowerCase[PlaceIn(UpperCase, s[i])]]

\* name occurs in the entry of index i (from 0), whatever the case
OccursIn(name, i) == Contains(Lower(ALL_GLASS_NAMES[i + 1]), Lower(name))

SomeEntryHas(name) ==
  \E i \in 0..(Len(ALL_GLASS_NAMES) - 1) : OccursIn(name, i)

\* C18: for a name that occurs in some entry, whatever the case,
\* find_glass returns the smallest index of such an entry: the name of the
\* glass found contains it, and no entry before does.
C18_FirstMatch ==
  (op = "find_glass" /\ SomeEntryHas(args[1])) =>
    /\ ret.kind = "int"
    /\ Contains(Lower(glass_name(ret.v).v), Lower(args[1]))
    /\ \A i \in 0..(ret.v - 1) : ~OccursIn(args[1], i)

C18_LaterMatchInOtherCase ==
  /\ op = "find_glass"
  /\ ret.v > 0
  /\ ~Contains(ALL_GLASS_NAMES[ret.v + 1], args[1])
  /\ \E i \in (ret.v + 1)..(Len(ALL_GLASS_NAMES) - 1) : OccursIn(args[1], i)

(***************************************************************************)
(* Properties of fractional mode numbers.                                  *)
(***************************************************************************)
\* a fractional ell or em was passed to a call that gets as far as the
\* zeros of J
FractionalLookup ==
  \/ /\ op = "LP_mode_value_float"
     /\ args[1] > 0 /\ args[3] >= One
     /\ (~IsWhole(args[2]) \/ ~IsWhole(args[3]))
  \/ op = "cutoff_wavelength" /\ ~IsWhole(args[3])

\* C19: a call with a fractional mode number does not fail: the zeros of J
\* are looked up for the truncated numbers and the call goes on with them.
C19_FractionalModeTruncated ==
  FractionalLookup =>
    /\ ret.kind # "raise"
    /\ op = "LP_mode_value_float" =>
         /\ Len(calls) = 1
         /\ calls[1].zeros
         /\ calls[1].ell = Trunc(args[2]) /\ calls[1].em = Trunc(args[3])

InTableCall ==
  op \in {"glass", "glass_name", "find_glass", "doped_glass", "n", "dn",
          "d2n", "n_group", "Material_Dispersion"}

\* C20: whatever calls of the functions of refraction.py and of
\* Material_Dispersion were made, the table of coefficients and the names
\* are what they were at first, and glass(i) returns the six coefficients
\* of row i.
C20_TableUnchanged ==
  /\ _GLASS = GlassRows
  /\ ALL_GLASS_NAMES = GlassNames
  /\ (op = "glass" /\ args[1] \in 0..(Len(GlassRows) - 1)) =>
       (arr = GlassRows[args[1] + 1] /\ Len(arr) = 6)

C20_TableRead ==
  /\ op = "n" /\ args[1] = 0
  /\ ret.kind = "float" /\ ret.v > One
  /\ _GLASS[1] = GlassRows[1]

(***************************************************************************)
(* Properties of the bracket of the cylindrical solver.                    *)
(***************************************************************************)
\* the k-th positive zero of J_|ell|
ZeroOf(ell, k) == JZeroTable[Abs(ell) + 1][k]

\* what the bracket of a call c of _LP_mode_value has to be
BracketLo(c) == Max(0, One - Square(Div(ZeroOf(c.ell, c.em), c.V))) + abit
BracketHi(c) ==
  IF c.em = 1 THEN One - abit
  ELSE One - Square(Div(ZeroOf(c.ell, c.em - 1), c.V)) - abit

BracketKept(c) ==
  /\ c.lo = BracketLo(c)
  /\ c.hi = BracketHi(c)
  /\ c.hi < c.lo => (c.brent = "no" /\ c.ret = PyNone)
  /\ c.brent # "no" => c.lo <= c.hi
  /\ c.ret.kind = "float" => (c.lo <= c.ret.v /\ c.ret.v <= c.hi)

\* C21: in every call of the cylindrical solver with V > 0 and em >= 1 the
\* bracket is lo = max(0, 1 - (z_em/V)^2) + epsilon and hi = 1 - epsilon
\* for em = 1, hi = 1 - (z_{em-1}/V)^2 - epsilon otherwise; with hi < lo the
\* call is no-mode and brentq is not called, so brentq is only called with
\* lo <= hi, and a value returned lies in [lo, hi].
C21_BracketKept ==
  (InLPValue \/ InLPValues) =>
    \A i \in 1..Len(calls) :
      (calls[i].V > 0 /\ calls[i].em >= 1) => BracketKept(calls[i])

C21_ValueThenEmptyBracket ==
  /\ InLPValues
  /\ Len(calls) >= 2
  /\ calls[1].ret.kind = "float" /\ calls[1].brent = "root"
  /\ calls[Len(calls)].em >= 2
  /\ calls[Len(calls)].hi < calls[Len(calls)].lo

(***************************************************************************)
(* Properties of the bracket of the planar solver.                         *)
(***************************************************************************)
\* what a call c of TE_crossing or TM_crossing has to keep
PlanarBracketKept(c) ==
  /\ c.brent # "no" => c.lo <= c.hi
  /\ (c.ret.kind = "float" /\ c.ret.v # 0) =>
       /\ abit + (c.mode * Pi) \div 2 <= c.ret.v
       /\ c.ret.v <= Min(Pi \div 2 - abit + (c.mode * Pi) \div 2, c.V \div 2)
       /\ 0 < c.ret.v /\ c.ret.v <= c.V \div 2
       /\ (c.mode * Pi) \div 2 < c.ret.v
       /\ c.ret.v < ((c.mode + 1) * Pi) \div 2

\* C22: a nonzero eigenvalue xi returned by TE_crossing(V, mode) or
\* TM_crossing(V, n1, n2, mode) with mode >= 0 lies in
\* [epsilon + mode*pi/2, min(pi/2 - epsilon + mode*pi/2, V/2)], hence
\* 0 < xi <= V/2 and mode*pi/2 < xi < (mode+1)*pi/2, and brentq is never
\* called with a lower bound above its upper bound.
C22_EigenvalueInOwnBracket ==
  (InCrossing \/ InCrossings) =>
    \A i \in 1..Len(calls) :
      calls[i].mode >= 0 => PlanarBracketKept(calls[i])

C22_ClippedBracketSolved ==
  /\ InCrossing /\ ArgMode >= 1
  /\ ret.kind = "float" /\ ret.v # 0
  /\ calls[1].hi = args[1] \div 2

(***************************************************************************)
(* Properties of the fields of a slab.                                     *)
(***************************************************************************)
InField == op \in {"TE_field", "TM_field"}

\* the thickness and the positions of the call, and the eigenvalue found
FieldD == args[Len(args) - 2]
FieldX == args[Len(args) - 1]
FieldXi == calls[1].ret.v

ModeExists == calls[1].ret.kind = "float" /\ calls[1].ret.v # 0

\* the accuracy to which two values of a field are compared
FieldTol == One \div 10000

\* the interior and the exterior expression agree at position s
ContinuousAt(s) ==
  Abs(FieldA(FieldD, s, ArgMode, FieldXi)
      - FieldB(args[1], FieldD, s, ArgMode, FieldXi)) <= FieldTol

\* +1 for an even mode, -1 for an odd one
Parity == IF ArgMode % 2 = 0 THEN 1 ELSE -1

UpToPrevZero(c) ==
  c.em >= 2 /\ 0 < c.V /\ c.V <= ZeroOf(c.ell, c.em - 1)

\* C25: for em >= 2, every ell and 0 < V <= z_{em-1}, the (em-1)-th
\* positive zero of J_|ell|, LP_mode_value(V, ell, em) is no-mode by the
\* test hi < lo, and brentq is not called.
C25_EmptyBracketUpToPrevZero ==
  (InLPValue \/ InLPValues) =>
    \A i \in 1..Len(calls) :
      UpToPrevZero(calls[i]) =>
        /\ calls[i].ret = PyNone
        /\ calls[i].zeros
        /\ calls[i].brent = "no"
        /\ calls[i].hi < calls[i].lo
        /\ InLPValue => ret = PyNone

C25_AtThePrevZero ==
  /\ InLPValue /\ ArgEm = 2 /\ ArgV = ZeroOf(ArgEll, 1)
  /\ ret = PyNone /\ calls[1].brent = "no"

\* a call c of _LP_mode_value that computed its bracket
HasBracket(c) == c.zeros

\* C26: for fixed V and ell the brackets of successive radial orders are
\* disjoint and descend in b, the upper bound for em + 1 lying strictly
\* below the lower bound for em, so the array returned by
\* LP_mode_values(V, ell) is strictly decreasing and has no repeated value.
C26_BracketsDescend ==
  InLPValues =>
    /\ \A i \in 1..(Len(calls) - 1) :
         (HasBracket(calls[i]) /\ HasBracket(calls[i + 1])) =>
           /\ calls[i + 1].em = calls[i].em + 1
           /\ calls[i + 1].hi < calls[i].lo
    /\ \A i, j \in 1..Len(arr) : i < j => arr[i] > arr[j]

C26_SeveralDescending ==
  /\ InLPValues /\ ret.kind = "array"
  /\ Len(arr) >= 3
  /\ calls[3].hi < calls[2].lo /\ calls[2].hi < calls[1].lo
  /\ arr[1] > arr[2] /\ arr[2] > arr[3]

(***************************************************************************)
(* Properties of the functions that use the planar crossings.              *)
(***************************************************************************)
InPropagation ==
  op \in {"TE_propagation_constant", "TM_propagation_constant"}

\* C27: TE_field, TM_field, TE_propagation_constant and
\* TM_propagation_constant test the result of TE_crossing or TM_crossing
\* for the 0 that stands for no mode before they use it as an eigenvalue:
\* for a mode that does not exist no field is computed from xi = 0 and
\* no propagation constant other than 0.
C27_NoModeIsTested ==
  /\ (InField /\ calls[1].ret = NoCrossing) => ret.kind # "array"
  /\ (InPropagation /\ ret.kind = "array") =>
       \A i \in 1..Len(arr) : calls[i].ret = NoCrossing => arr[i].v = 0

(***************************************************************************)
(* The TM solver and the parabolic solver against the TE solver.           *)
(***************************************************************************)
\* the two index arguments of the TM call are equal and not 0
EqualIndices == args[2] = args[3] /\ args[2] # 0

\* C28: with n1 = n2 # 0 the TM solver coincides with the TE solver:
\* TM_crossing(V, n, n, mode) returns what TE_crossing(V, mode) returns for
\* every V and mode >= 0, and TM_crossings(V, n, n) has the length and the
\* entries of TE_crossings(V).
C28_TMEqualsTE ==
  /\ (op = "TM_crossing" /\ EqualIndices /\ ArgMode >= 0) =>
       ret = TE_crossing(args[1], ArgMode).ret
  /\ (op = "TM_crossings" /\ EqualIndices) =>
       /\ ret = TE_crossings(args[1]).ret
       /\ Len(arr) = Len(TE_crossings(args[1]).arr)
       /\ arr = TE_crossings(args[1]).arr

C28_SeveralEqualEntries ==
  /\ op = "TM_crossings" /\ EqualIndices
  /\ ret.kind = "array" /\ Len(arr) >= 2
  /\ arr[1] # 0 /\ arr[2] # 0

\* C29: parabolic_crossing(V, mode) returns what planar_step.TE_crossing(V,
\* mode) returns for every V and mode, from the same bracket, the same
\* eigenvalue equation and with the same 0 for no mode, and
\* parabolic_crossings(V) equals TE_crossings(V).
C29_ParabolicIsTE ==
  /\ op = "parabolic_crossing" =>
       /\ ret = TE_crossing(args[1], args[2]).ret
       /\ calls = << TE_crossing(args[1], args[2]) >>
  /\ op = "parabolic_crossings" =>
       /\ ret = TE_crossings(args[1]).ret
       /\ arr = TE_crossings(args[1]).arr

C29_OddParabolicMode ==
  /\ op = "parabolic_crossing" /\ args[2] % 2 = 1
  /\ ret.kind = "float" /\ ret.v # 0

(***************************************************************************)
(* A name that no glass has.                                               *)
(***************************************************************************)
\* C30: find_glass(name) never raises for a string; for a name that occurs
\* in no entry of ALL_GLASS_NAMES it returns 0, which is what it returns
\* for the name of the first glass, SiO2, so the value returned does not
\* tell the two apart.
C30_NotFoundIsFirstGlass ==
  op = "find_glass" =>
    /\ ret.kind = "int"
    /\ ~SomeEntryHas(args[1]) =>
         /\ ret.v = 0
         /\ OccursIn(ALL_GLASS_NAMES[1], 0)
         /\ ret = find_glass(ALL_GLASS_NAMES[1])

C30_NameOfNoGlass ==
  /\ op = "find_glass" /\ Len(args[1]) > 0
  /\ ~SomeEntryHas(args[1])
  /\ ret = [kind |-> "int", v |-> 0]

=============================================================================
